---- MODULE Spec2Model ----
(***************************************************************************)
(* Component tree model of the Flutter visual builder: the widget          *)
(* registry (lib/widgets.ts), the tree helpers and the editor handlers of  *)
(* the multi-page visual builder (VisualBuilderEnhanced), the page manager *)
(* form (PageManager), the validators (lib/validation.ts), and the project *)
(* list of the Dashboard with the service that stores the projects.        *)
(***************************************************************************)
EXTENDS Integers, Sequences, FiniteSets, TLC

VARIABLES
    pages,                 \* useState<PageData[]>: the page collection
    currentPageId,         \* useState<string>: id of the page being viewed
    selectedComponentId,   \* useState<string | null>
    toastMsg,              \* the toast the last handler raised, or NoToast
    crashed,               \* TRUE once a render of the editor has thrown
    now,                   \* the last value Date.now() returned
    writes,                \* the in-place writes the last handler made to
                           \* objects of the previous page collection
    call,                  \* pure-function harness: the call made
    ret,                   \* pure-function harness: the value returned
    project,               \* useState<Project | null>: <<>> for null,
                           \* <<p>> for the project p
    isLoading,             \* useState(true): TRUE until the mount effect ends
    isSaving,              \* useState(false)
    validationErrors,      \* useState<string[]>
    inflight,              \* the save requests awaiting the service's answer
    emitted,               \* the document the last handler downloaded or
                           \* sent, or NoDocument
    location,              \* the route of the router (wouter)
    errors,                \* PageManager's useState<Record<string, string>>:
                           \* the errors the last submit of the page form
                           \* set, kept until a submit or a reset of the form
    projects,              \* Dashboard's useState<Project[]>: the list shown
    dashboardLoading,      \* Dashboard's isLoading, useState(true)
    isFormOpen,            \* Dashboard's useState(false)
    selectedProject,       \* useState<Project | undefined>: <<>> or <<p>>
    formLoading,           \* ProjectForm's isLoading, useState(false)
    generatingId,          \* useState<number | null>: NoId for null
    selectedProjectId,     \* useState<number | null>: NoId for null
    isLogsOpen,            \* useState(false)
    isQuickGenerateOpen,   \* Dashboard's useState(false)
    quickLoading,          \* QuickGenerateDialog's isLoading, useState(false)
    quickError,            \* QuickGenerateDialog's useState<string | null>:
                           \* <<>> for null, <<message>> for a message
    downloaded,            \* the name of the last file handed to the
                           \* browser by downloadFile, <<>> when none was
    server,                \* the service: the projects it stores, the id
                           \* it gives to the next project created and
                           \* the number of requests it has been through
    requests               \* the Dashboard's requests awaiting an answer,
                           \* each with the projects value its handler
                           \* closed over

persistVars == <<project, isLoading, isSaving, validationErrors, inflight,
                 emitted, location>>

quickVars == <<isQuickGenerateOpen, quickLoading, quickError, downloaded>>

dashVars == <<projects, dashboardLoading, isFormOpen, selectedProject,
              formLoading, generatingId, selectedProjectId, isLogsOpen,
              server, requests, quickVars>>

vars == <<pages, currentPageId, selectedComponentId, toastMsg, crashed, now,
          writes, call, ret, persistVars, errors, dashVars>>

editorVars == <<pages, currentPageId, selectedComponentId, toastMsg, crashed,
                now, writes, persistVars, errors>>

----------------------------------------------------------------------------
(* Bounds of the model.                                                    *)

\* Date.now() readings are capped: every node or page creation reads the clock
MaxClock == 3
\* the largest number of nodes of a tree handed to the tree helpers
MaxTreeNodes == 3
\* the largest number of nodes a session with repeated clock readings builds
MaxSessionNodes == 3
\* the longest route handed to validateRoute
MaxRouteLen == 3

----------------------------------------------------------------------------
(* JavaScript values.                                                      *)

Null == "null"                       \* null: no generated id is spelled so
Undefined == "undefined"             \* `${undefined}` in a template string
EmptyProps == [n \in {} |-> ""]       \* the object literal {}

----------------------------------------------------------------------------
(* Widget registry, lib/widgets.ts.                                        *)

\* a property descriptor with a defaultValue
PropD(name, value) == [name |-> name, defaultValue |-> <<value>>]
\* a property descriptor without a defaultValue
PropN(name) == [name |-> name, defaultValue |-> <<>>]

\* a WidgetDefinition; no definition of the registry sets defaultProps
WidgetDef(category, canHaveChildren, props) ==
    [category |-> category, canHaveChildren |-> canHaveChildren,
     props |-> props, defaultProps |-> {}]

FLUTTER_WIDGETS ==
    [Scaffold   |-> WidgetDef("layout", TRUE, <<>>),
     AppBar     |-> WidgetDef("layout", FALSE,
                      <<PropD("title", "My App"),
                        PropD("backgroundColor", "#6200EE"),
                        PropD("elevation", 4)>>),
     Container  |-> WidgetDef("layout", TRUE,
                      <<PropN("backgroundColor"), PropD("padding", 8),
                        PropD("margin", 0), PropD("borderRadius", 0),
                        PropD("border", FALSE)>>),
     Row        |-> WidgetDef("layout", TRUE,
                      <<PropD("mainAxisAlignment", "start"),
                        PropD("crossAxisAlignment", "center")>>),
     Column     |-> WidgetDef("layout", TRUE,
                      <<PropD("mainAxisAlignment", "start"),
                        PropD("crossAxisAlignment", "center")>>),
     Stack      |-> WidgetDef("layout", TRUE, <<>>),
     Positioned |-> WidgetDef("layout", TRUE,
                      <<PropN("top"), PropN("bottom"), PropN("left"),
                        PropN("right")>>),
     Expanded   |-> WidgetDef("layout", TRUE, <<PropD("flex", 1)>>),
     SizedBox   |-> WidgetDef("layout", FALSE,
                      <<PropN("width"), PropN("height")>>),
     Padding    |-> WidgetDef("layout", TRUE, <<PropD("padding", 8)>>),
     Center     |-> WidgetDef("layout", TRUE, <<>>),
     Card       |-> WidgetDef("layout", TRUE, <<PropD("elevation", 1)>>),
     ListView   |-> WidgetDef("layout", FALSE, <<PropD("itemCount", 10)>>),
     Text       |-> WidgetDef("content", FALSE,
                      <<PropD("text", "Hello World"), PropD("fontSize", 14),
                        PropD("color", "#000000"),
                        PropD("fontWeight", "normal"),
                        PropD("alignment", "left")>>),
     Button     |-> WidgetDef("input", FALSE,
                      <<PropD("text", "Press me"), PropN("onPress"),
                        PropN("navigateTo")>>),
     TextField  |-> WidgetDef("input", FALSE, <<PropN("hintText")>>),
     Icon       |-> WidgetDef("content", FALSE,
                      <<PropN("icon"), PropD("size", 24),
                        PropD("color", "#000000")>>),
     Image      |-> WidgetDef("content", FALSE,
                      <<PropN("src"), PropD("fit", "cover")>>)]

WIDGET_TYPES == DOMAIN FLUTTER_WIDGETS

\* FLUTTER_WIDGETS is an object literal: FLUTTER_WIDGETS[type] also answers
\* the names the literal inherits from Object.prototype
InheritedNames ==
    {"constructor", "toString", "toLocaleString", "valueOf",
     "hasOwnProperty", "isPrototypeOf", "propertyIsEnumerable", "__proto__",
     "__defineGetter__", "__defineSetter__", "__lookupGetter__",
     "__lookupSetter__"}

\* getWidgetDefinition(type) is truthy: a definition of the registry or an
\* inherited member
IsRegistered(type) == type \in WIDGET_TYPES \cup InheritedNames

\* FLUTTER_WIDGETS[type] where it is truthy; an inherited member (a function
\* of Object.prototype, or Object.prototype itself) has none of the fields
\* of a WidgetDefinition
getWidgetDefinition(type) ==
    IF type \in WIDGET_TYPES THEN FLUTTER_WIDGETS[type]
    ELSE [inherited |-> type]

\* a boolean | undefined: <<b>> for the boolean b, <<>> for undefined
Truthy(value) == value # <<>> /\ value[1]

canContainWidget_NoOverride(parentType, childType) ==
    IF ~IsRegistered(parentType) THEN <<FALSE>>
    ELSE IF "canHaveChildren" \in DOMAIN getWidgetDefinition(parentType)
    THEN <<getWidgetDefinition(parentType).canHaveChildren>>
    ELSE <<>>

\* the value canContainWidget returns: <<b>> for the boolean b, <<>> for
\* the undefined that parent.canHaveChildren is on an inherited member
canContainWidget(parentType, childType) ==
    IF ~IsRegistered(parentType) THEN <<FALSE>>
    ELSE IF parentType = "ListView" THEN <<TRUE>>
    ELSE IF parentType = "AppBar" THEN <<FALSE>>
    ELSE IF "canHaveChildren" \in DOMAIN getWidgetDefinition(parentType)
    THEN <<getWidgetDefinition(parentType).canHaveChildren>>
    ELSE <<>>

\* `${type}-${Date.now()}-${Math.random().toString(36).substr(2, 9)}`
ComponentId(type, t, r) == type \o "-" \o ToString(t) \o "-" \o r

\* the defaultValues a kind's property descriptors declare, as a property map
DeclaredDefaults(type) ==
    LET ps == IF type \in WIDGET_TYPES THEN getWidgetDefinition(type).props
              ELSE <<>>
        withDefault == {i \in DOMAIN ps : ps[i].defaultValue # <<>>}
    IN  [n \in {ps[i].name : i \in withDefault} |->
            LET i == CHOOSE j \in withDefault : ps[j].name = n
            IN  ps[i].defaultValue[1]]

\* createDefaultComponent(type) for a type whose definition is truthy, the
\* clock reading t and the random suffix r (it throws for any other type:
\* see the handlers); definition.defaultProps || {}
createDefaultComponent(type, t, r) ==
    LET definition == getWidgetDefinition(type)
    IN  [id |-> ComponentId(type, t, r),
         type |-> type,
         props |-> IF "defaultProps" \notin DOMAIN definition
                      \/ definition.defaultProps = {}
                   THEN EmptyProps
                   ELSE CHOOSE m \in definition.defaultProps : TRUE,
         children |-> <<>>]

----------------------------------------------------------------------------
(* Tree helpers of the visual builder.                                     *)

\* findComponentById: depth first, parent before children, first match wins;
\* the result is a set holding the node found, empty for null
RECURSIVE findComponentById(_, _)
RECURSIVE findInChildren(_, _)
findInChildren(children, id) ==
    IF children = <<>> THEN {}
    ELSE LET found == findComponentById(Head(children), id)
         IN  IF found # {} THEN found
             ELSE findInChildren(Tail(children), id)

findComponentById(component, id) ==
    IF component.id = id THEN {component}
    ELSE findInChildren(component.children, id)

\* the updaters the handlers pass to updateComponentInTree
SetProps(props) == [kind |-> "props", props |-> props]
AppendChild(newChild) == [kind |-> "child", child |-> newChild]

ApplyUpdater(updater, comp) ==
    IF updater.kind = "props"
    THEN [comp EXCEPT !.props = updater.props]
    ELSE [comp EXCEPT !.children = Append(comp.children, updater.child)]

updateComponentRecursive_NoDescent(component, id, updater) ==
    IF component.id = id THEN ApplyUpdater(updater, component)
    ELSE component

RECURSIVE updateComponentRecursive_Prepend(_, _, _)
updateComponentRecursive_Prepend(component, id, updater) ==
    IF component.id = id
    THEN IF updater.kind = "props"
         THEN [component EXCEPT !.props = updater.props]
         ELSE [component EXCEPT
                 !.children = <<updater.child>> \o component.children]
    ELSE [component EXCEPT
            !.children = [i \in DOMAIN component.children |->
               updateComponentRecursive_Prepend(component.children[i], id,
                                                updater)]]

RECURSIVE updateComponentRecursive(_, _, _)
updateComponentRecursive(component, id, updater) ==
    IF component.id = id THEN ApplyUpdater(updater, component)
    ELSE [component EXCEPT
            !.children = [i \in DOMAIN component.children |->
               updateComponentRecursive(component.children[i], id, updater)]]

updateComponentInTree(components, id, updater) ==
    [i \in DOMAIN components |->
        updateComponentRecursive(components[i], id, updater)]

\* deleteComponentRecursive: a set holding the node kept, empty for null
RECURSIVE deleteComponentRecursive(_, _)
RECURSIVE deleteChildren(_, _)
deleteChildren(children, id) ==
    IF children = <<>> THEN <<>>
    ELSE LET kept == deleteComponentRecursive(Head(children), id)
         IN  (IF kept = {} THEN <<>> ELSE <<CHOOSE c \in kept : TRUE>>)
             \o deleteChildren(Tail(children), id)

deleteComponentRecursive_Inverted(component, id) ==
    IF component.id # id THEN {}
    ELSE {[component EXCEPT !.children = deleteChildren(component.children, id)]}

deleteComponentRecursive_Shallow(component, id) ==
    IF component.id = id THEN {}
    ELSE {[component EXCEPT
             !.children = SelectSeq(@, LAMBDA child : child.id # id)]}

deleteComponentRecursive(component, id) ==
    IF component.id = id THEN {}
    ELSE {[component EXCEPT !.children = deleteChildren(component.children, id)]}

deleteComponentFromTree(components, id) == deleteChildren(components, id)

----------------------------------------------------------------------------
(* Strings of the page form: sequences of one-character strings.  A        *)
(* character outside ASCII, or one with no escape in a string literal, is  *)
(* written by its code point: "U+00C9" is the one character É.             *)

RECURSIVE Str(_)
Str(chars) == IF chars = <<>> THEN "" ELSE Head(chars) \o Str(Tail(chars))

\* the characters that String.prototype.trim() strips and that \s matches:
\* the WhiteSpace and LineTerminator code points of ECMAScript
Whitespace ==
    {" ", "\t", "\n", "\f", "\r", "U+000B", "U+00A0", "U+1680", "U+2000",
     "U+2001", "U+2002", "U+2003", "U+2004", "U+2005", "U+2006", "U+2007",
     "U+2008", "U+2009", "U+200A", "U+2028", "U+2029", "U+202F", "U+205F",
     "U+3000", "U+FEFF"}
LowerLetters ==                              \* the characters of [a-z]
    <<"a", "b", "c", "d", "e", "f", "g", "h", "i", "j", "k", "l", "m", "n",
      "o", "p", "q", "r", "s", "t", "u", "v", "w", "x", "y", "z">>
UpperLetters ==                              \* the characters of [A-Z]
    <<"A", "B", "C", "D", "E", "F", "G", "H", "I", "J", "K", "L", "M", "N",
      "O", "P", "Q", "R", "S", "T", "U", "V", "W", "X", "Y", "Z">>
DigitChars == <<"0", "1", "2", "3", "4", "5", "6", "7", "8", "9">>
Range(seq) == {seq[i] : i \in DOMAIN seq}
LowerDigits == Range(LowerLetters) \cup Range(DigitChars)     \* [a-z0-9]
RouteChars == LowerDigits \cup {"_", "-", "/"}

\* s.trim() === ''
IsBlank(chars) == \A i \in DOMAIN chars : chars[i] \in Whitespace

\* validatePageName(name).isValid
validatePageName(name) ==
    ~(name = <<>> \/ IsBlank(name)) /\ ~(Len(name) < 2) /\ ~(Len(name) > 50)

\* validatePageName(name).errors: the messages of the errors reported
validatePageNameErrors(name) ==
    IF name = <<>> \/ IsBlank(name) THEN <<"Page name is required">>
    ELSE IF Len(name) < 2 THEN <<"Page name must be at least 2 characters">>
    ELSE IF Len(name) > 50
         THEN <<"Page name must be less than 50 characters">>
    ELSE <<>>

validateRoute_NoDuplicateCheck(route, existingRoutes) ==
    IF route = <<>> \/ IsBlank(route) THEN <<"Route is required">>
    ELSE IF route[1] # "/" THEN <<"Route must start with /">>
    ELSE IF \E i \in 2..Len(route) : route[i] \notin RouteChars
         THEN <<"Route can only contain lowercase letters, numbers, underscores, hyphens, and slashes">>
    ELSE <<>>

\* validateRoute(route, existingRoutes): the messages of the errors reported
validateRoute(route, existingRoutes) ==
    IF route = <<>> \/ IsBlank(route) THEN <<"Route is required">>
    ELSE IF route[1] # "/" THEN <<"Route must start with /">>
    ELSE IF \E i \in 2..Len(route) : route[i] \notin RouteChars
         THEN <<"Route can only contain lowercase letters, numbers, underscores, hyphens, and slashes">>
    ELSE IF \E i \in DOMAIN existingRoutes : existingRoutes[i] = route
         THEN <<"This route already exists">>
    ELSE <<>>

----------------------------------------------------------------------------
(* The JSON document and its validation, lib/validation.ts.  A string      *)
(* field a validator reads character by character is a sequence of         *)
(* characters; undefined in such a field is the sequence UndefinedChars.   *)

UndefinedChars == <<Undefined>>

\* obj.f of a field holding a string, undefined when obj has no such field
CharsField(obj, f) == IF f \in DOMAIN obj THEN obj[f] ELSE UndefinedChars

\* !s for a string or undefined
Falsy(chars) == chars = UndefinedChars \/ chars = <<>>

\* s.toLowerCase() over ASCII and the Latin-1 letters, and over U+0130,
\* whose lower case is the two characters i and U+0307; a character of
\* another block with a lower case is outside the strings of the model
RECURSIVE toLowerCase(_)
toLowerCase(chars) ==
    LET upperLatin1 ==
            <<"U+00C0", "U+00C1", "U+00C2", "U+00C3", "U+00C4", "U+00C5",
              "U+00C6", "U+00C7", "U+00C8", "U+00C9", "U+00CA", "U+00CB",
              "U+00CC", "U+00CD", "U+00CE", "U+00CF", "U+00D0", "U+00D1",
              "U+00D2", "U+00D3", "U+00D4", "U+00D5", "U+00D6", "U+00D8",
              "U+00D9", "U+00DA", "U+00DB", "U+00DC", "U+00DD", "U+00DE">>
        lowerLatin1 ==
            <<"U+00E0", "U+00E1", "U+00E2", "U+00E3", "U+00E4", "U+00E5",
              "U+00E6", "U+00E7", "U+00E8", "U+00E9", "U+00EA", "U+00EB",
              "U+00EC", "U+00ED", "U+00EE", "U+00EF", "U+00F0", "U+00F1",
              "U+00F2", "U+00F3", "U+00F4", "U+00F5", "U+00F6", "U+00F8",
              "U+00F9", "U+00FA", "U+00FB", "U+00FC", "U+00FD", "U+00FE">>
        upper == UpperLetters \o upperLatin1
        lower == LowerLetters \o lowerLatin1
        ch == Head(chars)
    IN  IF chars = <<>> THEN <<>>
        ELSE (IF ch = "U+0130" THEN <<"i", "U+0307">>
              ELSE IF \E k \in DOMAIN upper : upper[k] = ch
              THEN <<lower[CHOOSE k \in DOMAIN upper : upper[k] = ch]>>
              ELSE <<ch>>)
             \o toLowerCase(Tail(chars))

\* s.replace(/\s+/g, '_'): every run of whitespace becomes one underscore
RECURSIVE ReplaceSpaces(_, _)
ReplaceSpaces(chars, inRun) ==
    IF chars = <<>> THEN <<>>
    ELSE IF Head(chars) \in Whitespace
         THEN (IF inRun THEN <<>> ELSE <<"_">>)
              \o ReplaceSpaces(Tail(chars), TRUE)
         ELSE <<Head(chars)>> \o ReplaceSpaces(Tail(chars), FALSE)

\* /^[a-z_][a-z0-9_]*$/.test(s)
MatchesIdentifier(chars) ==
    /\ chars # <<>>
    /\ chars[1] \in Range(LowerLetters) \cup {"_"}
    /\ \A i \in 2..Len(chars) : chars[i] \in LowerDigits \cup {"_"}

\* /^[a-z][a-z0-9]*(\.[a-z0-9]+)*$/.test(s)
MatchesPackageName(chars) ==
    /\ chars # <<>>
    /\ chars[1] \in Range(LowerLetters)
    /\ \A i \in DOMAIN chars : chars[i] \in LowerDigits \cup {"."}
    /\ chars[Len(chars)] # "."
    /\ \A i \in 1..(Len(chars) - 1) : ~(chars[i] = "." /\ chars[i + 1] = ".")

\* the decimal digits of a natural number
RECURSIVE Decimal(_)
Decimal(n) ==
    IF n < 10 THEN <<DigitChars[n + 1]>>
    ELSE Decimal(n \div 10) \o <<DigitChars[(n % 10) + 1]>>

\* the characters of the ids of pages: `page_${Date.now()}` and the ids of
\* the screens of the documents loaded
PageIdChars(t) == <<"p", "a", "g", "e", "_">> \o Decimal(t)
IdSpellings ==
    {PageIdChars(t) : t \in 0..(MaxClock + 1)}
    \cup {<<"h", "o", "m", "e">>, <<"H", "o", "m", "e", "-", "1">>,
          <<"a", "b", "o", "u", "t">>}
Chars(id) == CHOOSE c \in IdSpellings : Str(c) = id

\* validateScreen(screen, index): the messages of the errors reported
validateScreen(screen, index) ==
    (IF "id" \notin DOMAIN screen \/ screen.id = Undefined \/ screen.id = ""
     THEN <<"Screen id is required">>
     ELSE IF ~MatchesIdentifier(Chars(screen.id))
          THEN <<"Screen id must be lowercase with underscores only">>
          ELSE <<>>)
    \o (IF Falsy(CharsField(screen, "name"))
        THEN <<"Screen name is required">> ELSE <<>>)
    \o (IF Falsy(CharsField(screen, "route"))
        THEN <<"Screen route is required">>
        ELSE IF screen.route[1] # "/"
             THEN <<"Screen route must start with /">>
             ELSE <<>>)
    \o (IF "is_home" \notin DOMAIN screen \/ screen.is_home \notin BOOLEAN
        THEN <<"is_home must be a boolean">> ELSE <<>>)
    \o (IF "components" \notin DOMAIN screen
        THEN <<"components must be an array">>
        ELSE IF Len(screen.components) = 0
             THEN <<"At least one component is required">>
             ELSE <<>>)

RECURSIVE validateScreens(_, _)
validateScreens(screens, index) ==
    IF index >= Len(screens) THEN <<>>
    ELSE validateScreen(screens[index + 1], index)
         \o validateScreens(screens, index + 1)

\* validateJsonData(jsonData): the messages of the errors reported
validateJsonData(jsonData) ==
    (IF Falsy(CharsField(jsonData, "app_name"))
     THEN <<"app_name is required">>
     ELSE IF ~MatchesIdentifier(jsonData.app_name)
          THEN <<"app_name must be lowercase with underscores only">>
          ELSE <<>>)
    \o (IF Falsy(CharsField(jsonData, "package_name"))
        THEN <<"package_name is required">>
        ELSE IF ~MatchesPackageName(jsonData.package_name)
             THEN <<"package_name must be a valid Java package name (e.g., com.example.app)">>
             ELSE <<>>)
    \o (IF "screens" \notin DOMAIN jsonData
        THEN <<"screens must be an array">>
        ELSE IF Len(jsonData.screens) = 0
             THEN <<"At least one screen is required">>
             ELSE validateScreens(jsonData.screens, 0))

\* validateProjectForm(data).errors: the messages of the errors reported
validateProjectForm(data) ==
    (IF Falsy(CharsField(data, "name")) \/ IsBlank(data.name)
     THEN <<"Project name is required">>
     ELSE IF Len(data.name) < 3
          THEN <<"Project name must be at least 3 characters">>
          ELSE IF Len(data.name) > 100
               THEN <<"Project name must be less than 100 characters">>
               ELSE <<>>)
    \o (IF ~Falsy(CharsField(data, "description"))
           /\ Len(data.description) > 500
        THEN <<"Description must be less than 500 characters">> ELSE <<>>)
    \o (IF "json_data" \notin DOMAIN data
        THEN <<"JSON configuration is required">>
        ELSE validateJsonData(data.json_data))

----------------------------------------------------------------------------
(* The editor state (VisualBuilderEnhanced).                               *)

NoToast == [level |-> "none", text |-> ""]
NoDocument == [kind |-> "none"]
BuilderLocation == "/builder"
NoErrors == [f \in {} |-> ""]
NoProject == <<>>
Dashboard == "/"
Toast(level, text) == [level |-> level, text |-> text]

\* `page_${Date.now()}`
PageId(t) == "page_" \o ToString(t)

\* the inputs the handlers are driven with
PaletteKinds == {"Container", "Text"}
PropInputs == {[text |-> "Hi"]}
RandomSuffixes == {"k3x"}
StaleId == ComponentId("Container", 0, "k3x")
NameInputs == {<<"H", "o", "m", "e">>}
RouteInputs == {<<"/">>, <<"/", "p">>}

\* Date.now() at a user action: one millisecond or more after the last one
ClockReadings == {t \in {now + 1} : t <= MaxClock}
\* Date.now() read again by the handler that read t: the same millisecond
\* or a later one
LaterReadings(t) == {u \in {t, t + 1} : u <= MaxClock}

\* pages.find((p) => p.id === currentPageId): the indices found, first wins
PageIndices(pg, cur) == {i \in DOMAIN pg : pg[i].id = cur}
HasCurrentPage(pg, cur) == PageIndices(pg, cur) # {}
CurrentPage(pg, cur) ==
    pg[CHOOSE i \in PageIndices(pg, cur) :
          \A j \in PageIndices(pg, cur) : i <= j]

\* the render computes selectedComponent as
\* findComponentById(currentPage.components[0], selectedComponentId || ''),
\* which reads .id of undefined when the current page has no component
RenderThrows(pg, cur) ==
    HasCurrentPage(pg, cur) /\ CurrentPage(pg, cur).components = <<>>

RECURSIVE NodeIds(_)
RECURSIVE ForestIds(_)
ForestIds(components) ==
    IF components = <<>> THEN {}
    ELSE NodeIds(Head(components)) \cup ForestIds(Tail(components))
NodeIds(component) == {component.id} \cup ForestIds(component.children)

AllIds(pg) == UNION {ForestIds(pg[i].components) : i \in DOMAIN pg}

\* the previous page collection as a holder of that reference sees it after
\* the writes w that a handler made through shared node objects
HeldView(pg, w) ==
    [i \in DOMAIN pg |->
        IF \E x \in w : x.page = i
        THEN LET x == CHOOSE y \in w : y.page = i
             IN  [pg[i] EXCEPT !.components[1].children = Append(@, x.pushed)]
        ELSE pg[i]]

\* number | null with no project chosen
NoId == 0

\* a Project of the Dashboard: the fields the list is compared by
ProjectRow(id, name) == [id |-> id, name |-> name]

\* the projects the service stores when the session starts
StoredRows == {ProjectRow(1, "alpha"), ProjectRow(2, "beta")}

\* the Dashboard's useState initial values, no request sent
DashboardInitial ==
    /\ projects = <<>>
    /\ dashboardLoading = TRUE
    /\ isFormOpen = FALSE
    /\ selectedProject = <<>>
    /\ formLoading = FALSE
    /\ generatingId = NoId
    /\ selectedProjectId = NoId
    /\ isLogsOpen = FALSE
    /\ isQuickGenerateOpen = FALSE
    /\ quickLoading = FALSE
    /\ quickError = <<>>
    /\ downloaded = <<>>
    /\ server = [rows |-> StoredRows, nextId |-> 3, served |-> 0]
    /\ requests = <<>>

\* the state after the mount effect of a new project, which reads the clock
\* for the page id and again in createDefaultComponent
Init ==
    \E r \in RandomSuffixes, u \in LaterReadings(1) :
        /\ DashboardInitial
        /\ now = u
        /\ pages = <<[id |-> PageId(1), name |-> <<"H", "o", "m", "e">>,
                      route |-> <<"/">>, is_home |-> TRUE,
                      components |->
                          <<createDefaultComponent("Scaffold", u, r)>>]>>
        /\ currentPageId = PageId(1)
        /\ selectedComponentId = Null
        /\ toastMsg = NoToast
        /\ crashed = FALSE
        /\ writes = {}
        /\ call = [fn |-> "none"]
        /\ ret = [ok |-> TRUE]
        /\ project = NoProject
        /\ isLoading = FALSE
        /\ isSaving = FALSE
        /\ validationErrors = <<>>
        /\ inflight = <<>>
        /\ emitted = NoDocument
        /\ location = BuilderLocation
        /\ errors = NoErrors

----------------------------------------------------------------------------
(* The handlers.  Every handler ends with the render its state updates     *)
(* cause; a handler runs only while the editor is mounted (not crashed).   *)

Rendered == crashed' = RenderThrows(pages', currentPageId')

HarnessIdle == UNCHANGED <<call, ret>>

\* a handler of the builder: the Dashboard is another route
NoDashboard == UNCHANGED dashVars

\* the editor's controls exist while the builder route is shown, the mount
\* effect has ended ("Loading..." is rendered until then) and no render threw
Mounted == ~crashed /\ ~isLoading /\ location = BuilderLocation

\* a handler that is no submit of the page form and no reset of it (the
\* dialog of a refused submit closed with Escape keeps its errors)
NoForm == UNCHANGED errors

\* newErrors[err.field] = err.message over both validations
FormErrors(nameErrors, routeErrors) ==
    [f \in (IF nameErrors = <<>> THEN {} ELSE {"name"})
           \cup (IF routeErrors = <<>> THEN {} ELSE {"route"}) |->
        IF f = "name" THEN nameErrors[Len(nameErrors)]
        ELSE routeErrors[Len(routeErrors)]]

\* a handler that neither saves, loads nor exports
NoPersistence ==
    /\ emitted' = NoDocument
    /\ UNCHANGED <<project, isLoading, isSaving, validationErrors, inflight,
                   location>>

\* palette add: the new node becomes the root of an empty page, and is
\* otherwise pushed onto the children array of the first root, an array
\* that the previous page collection shares
handleAddComponent(type, t, r) ==
    LET newComponent == createDefaultComponent(type, t, r)
        Add(p) == IF p.components = <<>>
                  THEN [p EXCEPT !.components = <<newComponent>>]
                  ELSE [p EXCEPT !.components[1].children =
                                      Append(@, newComponent)]
    IN  /\ Mounted
        /\ HasCurrentPage(pages, currentPageId)
        /\ now' = t
        /\ pages' = [i \in DOMAIN pages |->
                      IF pages[i].id # currentPageId THEN pages[i]
                      ELSE Add(pages[i])]
        /\ writes' = {[page |-> i, pushed |-> newComponent] :
                        i \in {j \in DOMAIN pages :
                                 /\ pages[j].id = currentPageId
                                 /\ pages[j].components # <<>>}}
        /\ selectedComponentId' = newComponent.id
        /\ toastMsg' = Toast("success", "Added " \o type \o " component")
        /\ UNCHANGED currentPageId
        /\ Rendered
        /\ HarnessIdle
        /\ NoDashboard
        /\ NoPersistence
        /\ NoForm

\* the parent handleAddChild looks up, as a set (empty for null)
ParentOf(parentId) ==
    findComponentById(CurrentPage(pages, currentPageId).components[1],
                      parentId)

AddChildAccepted_NoCheck(parentId, childType) ==
    ParentOf(parentId) # {}

AddChildAccepted(parentId, childType) ==
    /\ ParentOf(parentId) # {}
    /\ Truthy(canContainWidget((CHOOSE c \in ParentOf(parentId) : TRUE).type,
                               childType))

ParentTypeText_Id(parentId) == parentId

\* `${parent?.type}`
ParentTypeText(parentId) ==
    IF ParentOf(parentId) = {} THEN Undefined
    ELSE (CHOOSE c \in ParentOf(parentId) : TRUE).type

handleAddChild(parentId, childType, t, r) ==
    /\ Mounted
    /\ HasCurrentPage(pages, currentPageId)
    /\ IF ~AddChildAccepted(parentId, childType)
       THEN /\ toastMsg' = Toast("error", ParentTypeText(parentId)
                                    \o " cannot contain " \o childType)
            /\ writes' = {}
            /\ UNCHANGED <<pages, currentPageId, selectedComponentId, now>>
       ELSE LET newChild == createDefaultComponent(childType, t, r)
                Add(p) == [p EXCEPT !.components =
                             updateComponentInTree(p.components, parentId,
                                                   AppendChild(newChild))]
            IN  /\ now' = t
                /\ pages' = [i \in DOMAIN pages |->
                      IF pages[i].id # currentPageId THEN pages[i]
                      ELSE Add(pages[i])]
                /\ selectedComponentId' = newChild.id
                /\ toastMsg' = Toast("success", "Added " \o childType
                                  \o " to " \o ParentTypeText(parentId))
                /\ writes' = {}
                /\ UNCHANGED currentPageId
    /\ Rendered
    /\ HarnessIdle
    /\ NoDashboard
    /\ NoPersistence
    /\ NoForm

\* whether selectedComponent is a node:
\* findComponentById(currentPage.components[0], selectedComponentId || ''),
\* a search of the first root only, in a render that did not throw
SelectionResolves ==
    /\ HasCurrentPage(pages, currentPageId)
    /\ CurrentPage(pages, currentPageId).components # <<>>
    /\ findComponentById(CurrentPage(pages, currentPageId).components[1],
                         IF selectedComponentId = Null THEN ""
                         ELSE selectedComponentId) # {}

handleUpdateProps(props) ==
    LET Upd(p) == [p EXCEPT !.components =
                     updateComponentInTree(p.components, selectedComponentId,
                                           SetProps(props))]
    IN  /\ Mounted
        /\ selectedComponentId # Null
        /\ HasCurrentPage(pages, currentPageId)
        /\ pages' = [i \in DOMAIN pages |->
                      IF pages[i].id # currentPageId THEN pages[i]
                      ELSE Upd(pages[i])]
        /\ writes' = {}
        /\ UNCHANGED <<currentPageId, selectedComponentId, now>>
        /\ toastMsg' = NoToast
        /\ Rendered
        /\ HarnessIdle
        /\ NoDashboard
        /\ NoPersistence
        /\ NoForm

handleDeleteComponent ==
    LET Del(p) == [p EXCEPT !.components =
                     deleteComponentFromTree(p.components,
                                             selectedComponentId)]
    IN  /\ Mounted
        /\ selectedComponentId # Null
        /\ HasCurrentPage(pages, currentPageId)
        /\ pages' = [i \in DOMAIN pages |->
                      IF pages[i].id # currentPageId THEN pages[i]
                      ELSE Del(pages[i])]
        /\ selectedComponentId' = Null
        /\ toastMsg' = Toast("success", "Component deleted")
        /\ writes' = {}
        /\ UNCHANGED <<currentPageId, now>>
        /\ Rendered
        /\ HarnessIdle
        /\ NoDashboard
        /\ NoPersistence
        /\ NoForm

\* the delete button of the row of node id in the component tree, the
\* confirm dialog accepted: onDeleteComponent(component.id) is the builder's
\* handleDeleteComponent, which takes no parameter and returns at once when
\* no component is selected
TreeNode_onDelete(id) ==
    /\ Mounted
    /\ HasCurrentPage(pages, currentPageId)
    /\ id \in ForestIds(CurrentPage(pages, currentPageId).components)
    /\ \/ handleDeleteComponent
       \/ /\ selectedComponentId = Null
          /\ toastMsg' = NoToast
          /\ writes' = {}
          /\ UNCHANGED <<pages, currentPageId, selectedComponentId, now>>
          /\ Rendered
          /\ HarnessIdle
          /\ NoDashboard
          /\ NoPersistence
          /\ NoForm

\* onSelectComponent={setSelectedComponentId}: a click on a node shown
onSelectComponent(id) ==
    /\ Mounted
    /\ HasCurrentPage(pages, currentPageId)
    /\ id \in ForestIds(CurrentPage(pages, currentPageId).components)
    /\ selectedComponentId' = id
    /\ writes' = {}
    /\ toastMsg' = NoToast
    /\ UNCHANGED <<pages, currentPageId, now>>
    /\ Rendered
    /\ HarnessIdle
    /\ NoDashboard
    /\ NoPersistence
    /\ NoForm

\* onSelectPage={setCurrentPageId}: a click on a page of the list
onSelectPage(id) ==
    /\ Mounted
    /\ \E i \in DOMAIN pages : pages[i].id = id
    /\ currentPageId' = id
    /\ writes' = {}
    /\ toastMsg' = NoToast
    /\ UNCHANGED <<pages, selectedComponentId, now>>
    /\ Rendered
    /\ HarnessIdle
    /\ NoDashboard
    /\ NoPersistence
    /\ NoForm

Routes(pg) == [i \in DOMAIN pg |-> pg[i].route]

\* PageManager.handleAddPage with the form fields, then the builder's
\* handleAddPage it calls through onAddPage: the clock reads t for the page
\* id and u in createDefaultComponent
PageManager_handleAddPage(pageName, pageRoute, isHome, t, u, r) ==
    LET existingRoutes == Routes(pages)
        newErrors == FormErrors(validatePageNameErrors(pageName),
                                validateRoute(pageRoute, existingRoutes))
    IN  /\ Mounted
        /\ UNCHANGED selectedComponentId
        /\ errors' = newErrors
        \* Object.keys(newErrors).length > 0
        /\ IF newErrors # NoErrors
           THEN /\ toastMsg' = NoToast
                /\ UNCHANGED <<pages, currentPageId, now>>
           ELSE /\ now' = u
                /\ pages' = Append(pages,
                       [id |-> PageId(t), name |-> pageName,
                        route |-> pageRoute, is_home |-> isHome,
                        components |->
                            <<createDefaultComponent("Scaffold", u, r)>>])
                /\ currentPageId' = PageId(t)
                /\ toastMsg' = Toast("success",
                                  "Page \"" \o Str(pageName) \o "\" created")
        /\ writes' = {}
        /\ Rendered
        /\ HarnessIdle
        /\ NoDashboard
        /\ NoPersistence

\* the Cancel button of the add and of the edit dialog: resetForm()
PageManager_onCancel ==
    /\ Mounted
    /\ errors' = NoErrors
    /\ toastMsg' = NoToast
    /\ writes' = {}
    /\ UNCHANGED <<pages, currentPageId, selectedComponentId, now>>
    /\ Rendered
    /\ HarnessIdle
    /\ NoDashboard
    /\ NoPersistence

\* the Back button of the header: setLocation('/'), which unmounts the
\* editor; the answer to a save still awaited makes its calls all the same
onBack ==
    /\ Mounted
    /\ location' = Dashboard
    /\ toastMsg' = NoToast
    /\ writes' = {}
    /\ emitted' = NoDocument
    /\ UNCHANGED <<pages, currentPageId, selectedComponentId, now, crashed,
                   project, isLoading, isSaving, validationErrors, inflight>>
    /\ HarnessIdle
    /\ NoDashboard
    /\ NoForm

IsLastPage_Never(pg) == FALSE

\* pages.length === 1
IsLastPage(pg) == Len(pg) = 1

FallbackPage_Last(updated) == updated[Len(updated)].id

\* updated[0].id
FallbackPage(updated) == updated[1].id

handleDeletePage(id) ==
    LET updated == SelectSeq(pages, LAMBDA p : p.id # id)
    IN  /\ Mounted
        /\ \E i \in DOMAIN pages : pages[i].id = id
        /\ IF IsLastPage(pages)
           THEN /\ toastMsg' = Toast("error",
                                     "You must have at least one page")
                /\ UNCHANGED <<pages, currentPageId>>
           ELSE IF currentPageId = id /\ updated = <<>>
           \* updated[0].id throws after setPages(updated) was called
           THEN /\ pages' = updated
                /\ toastMsg' = NoToast
                /\ UNCHANGED currentPageId
           ELSE /\ pages' = updated
                /\ currentPageId' = IF currentPageId = id
                                    THEN FallbackPage(updated)
                                    ELSE currentPageId
                /\ toastMsg' = Toast("success", "Page deleted")
        /\ writes' = {}
        /\ UNCHANGED <<selectedComponentId, now>>
        /\ Rendered
        /\ HarnessIdle
        /\ NoDashboard
        /\ NoPersistence
        /\ NoForm

PageIds(pg) == {pg[i].id : i \in DOMAIN pg}

Next ==
    \/ \E type \in PaletteKinds, t \in ClockReadings, r \in RandomSuffixes :
          handleAddComponent(type, t, r)
    \/ \E parentId \in AllIds(pages) \cup {StaleId}, childType \in PaletteKinds,
          t \in ClockReadings, r \in RandomSuffixes :
          handleAddChild(parentId, childType, t, r)
    \/ \E props \in PropInputs : SelectionResolves /\ handleUpdateProps(props)
    \/ SelectionResolves /\ handleDeleteComponent
    \/ \E id \in AllIds(pages) : TreeNode_onDelete(id)
    \/ \E id \in AllIds(pages) : onSelectComponent(id)
    \/ \E id \in PageIds(pages) : onSelectPage(id)
    \/ \E pageName \in NameInputs, pageRoute \in RouteInputs,
          isHome \in BOOLEAN, t \in ClockReadings, r \in RandomSuffixes :
          \E u \in LaterReadings(t) :
             PageManager_handleAddPage(pageName, pageRoute, isHome, t, u, r)
    \/ PageManager_onCancel
    \/ \E id \in PageIds(pages) : handleDeletePage(id)
    \/ onBack

Spec == Init /\ [][Next]_vars

----------------------------------------------------------------------------
(* The same handlers when nothing is assumed of Date.now() and             *)
(* Math.random(): a reading may repeat the last one, a draw may repeat an  *)
(* earlier one.                                                            *)

\* Date.now() never runs backwards, and may return the same millisecond
AnyClockReadings == now..MaxClock
\* Math.random().toString(36).substr(2, 9): any draw
AnyRandomSuffixes == {"k3x", "q9z"}

\* the number of nodes of a forest and of a page collection, counted at
\* their places and not by their ids
RECURSIVE ForestSize(_)
ForestSize(components) ==
    IF components = <<>> THEN 0
    ELSE 1 + ForestSize(Head(components).children)
           + ForestSize(Tail(components))

RECURSIVE NodeCount(_)
NodeCount(pg) ==
    IF pg = <<>> THEN 0
    ELSE ForestSize(Head(pg).components) + NodeCount(Tail(pg))

NextIds ==
    \/ \E type \in PaletteKinds, t \in AnyClockReadings,
          r \in AnyRandomSuffixes :
          NodeCount(pages) < MaxSessionNodes /\ handleAddComponent(type, t, r)
    \/ \E parentId \in AllIds(pages), childType \in PaletteKinds,
          t \in AnyClockReadings, r \in AnyRandomSuffixes :
          /\ NodeCount(pages) < MaxSessionNodes
          /\ handleAddChild(parentId, childType, t, r)
    \/ \E pageRoute \in RouteInputs, t \in AnyClockReadings,
          r \in AnyRandomSuffixes :
          /\ NodeCount(pages) < MaxSessionNodes
          /\ \E u \in t..MaxClock :
                PageManager_handleAddPage(<<"H", "o", "m", "e">>, pageRoute,
                                          FALSE, t, u, r)
    \/ PageManager_onCancel
    \/ \E id \in PageIds(pages) : onSelectPage(id)
    \/ \E id \in PageIds(pages) : handleDeletePage(id)
    \/ onBack

SpecIds == Init /\ [][NextIds]_vars

----------------------------------------------------------------------------
(* The page manager alone: the add, edit and delete forms and the page     *)
(* list, driven with the routes "/", "/profile" and "/a".                  *)

\* handleUpdatePage(id, updates): { ...p, ...updates } on every page with
\* the id
handleUpdatePage(pg, id, updates) ==
    [i \in DOMAIN pg |->
        IF pg[i].id = id
        THEN [pg[i] EXCEPT !.name = updates.name, !.route = updates.route,
                           !.is_home = updates.is_home]
        ELSE pg[i]]

\* pages.filter((p) => p.id !== editingPageId).map((p) => p.route)
RoutesOfOthers_All(pg, editingPageId) == Routes(pg)

RoutesOfOthers(pg, editingPageId) ==
    Routes(SelectSeq(pg, LAMBDA p : p.id # editingPageId))

\* PageManager.handleEditPage with the id the edit dialog was opened for
\* and the form fields, then the builder's handleUpdatePage
PageManager_handleEditPage(editingPageId, pageName, pageRoute, isHome) ==
    LET existingRoutes == RoutesOfOthers(pages, editingPageId)
        newErrors == FormErrors(validatePageNameErrors(pageName),
                                validateRoute(pageRoute, existingRoutes))
    IN  /\ Mounted
        /\ editingPageId \in PageIds(pages)
        /\ UNCHANGED <<currentPageId, selectedComponentId, now>>
        /\ errors' = newErrors
        \* Object.keys(newErrors).length > 0
        /\ IF newErrors # NoErrors
           THEN /\ toastMsg' = NoToast
                /\ UNCHANGED pages
           ELSE /\ pages' = handleUpdatePage(pages, editingPageId,
                                [name |-> pageName, route |-> pageRoute,
                                 is_home |-> isHome])
                /\ toastMsg' = Toast("success", "Page updated")
        /\ writes' = {}
        /\ Rendered
        /\ HarnessIdle
        /\ NoDashboard
        /\ NoPersistence

ProfileRoute == <<"/", "p", "r", "o", "f", "i", "l", "e">>
PageRouteInputs ==
    {<<"/">>, ProfileRoute, <<"/", "a">>}
PageNameInputs == {<<"H", "o", "m", "e">>, <<"\t", "\t">>}
\* the edit dialog opens with the page's name, which the user keeps or
\* clears down to one letter on the home page
EditNameInputs(id) ==
    {<<"H", "o", "m", "e">>} \cup (IF id = PageId(1) THEN {<<"x">>} ELSE {})

NextPages ==
    \/ \E pageName \in PageNameInputs, pageRoute \in PageRouteInputs,
          isHome \in BOOLEAN, t \in ClockReadings, r \in RandomSuffixes :
          \E u \in LaterReadings(t) :
             PageManager_handleAddPage(pageName, pageRoute, isHome, t, u, r)
    \/ \E id \in PageIds(pages) :
          \E pageName \in EditNameInputs(id),
             pageRoute \in PageRouteInputs, isHome \in BOOLEAN :
             PageManager_handleEditPage(id, pageName, pageRoute, isHome)
    \/ PageManager_onCancel
    \/ \E id \in PageIds(pages) : handleDeletePage(id)
    \/ \E id \in PageIds(pages) : onSelectPage(id)
    \/ onBack

SpecPages == Init /\ [][NextPages]_vars

----------------------------------------------------------------------------
(* Saving, exporting and loading (VisualBuilderEnhanced).                  *)

UntitledProject ==
    <<"U", "n", "t", "i", "t", "l", "e", "d", " ",
      "P", "r", "o", "j", "e", "c", "t">>
MyApp == <<"m", "y", "_", "a", "p", "p">>
ComExampleApp ==
    <<"c", "o", "m", ".", "e", "x", "a", "m", "p", "l", "e", ".",
      "a", "p", "p">>

\* project?.name || fallback
ProjectNameOr(proj, fallback) ==
    IF proj = NoProject \/ Falsy(CharsField(proj[1], "name")) THEN fallback
    ELSE proj[1].name

\* pages.map((page) => ({ id, name, route, is_home, components }))
ScreensOf(pg) ==
    [i \in DOMAIN pg |->
        [id |-> pg[i].id, name |-> pg[i].name, route |-> pg[i].route,
         is_home |-> pg[i].is_home, components |-> pg[i].components]]

\* the json_data that handleSaveProject and handleExportJSON build
JsonDataOf(proj, pg) ==
    [app_name |-> ReplaceSpaces(toLowerCase(ProjectNameOr(proj, MyApp)),
                                FALSE),
     package_name |-> ComExampleApp,
     screens |-> ScreensOf(pg)]

\* the projectData that handleSaveProject builds
ProjectDataOf(proj, pg) ==
    [name |-> ProjectNameOr(proj, UntitledProject),
     description |-> IF proj = NoProject
                        \/ Falsy(CharsField(proj[1], "description"))
                     THEN <<>> ELSE proj[1].description,
     json_data |-> JsonDataOf(proj, pg)]

\* JSON.parse(JSON.stringify(screen)): a property whose value is undefined
\* is left out
JsonScreen(screen) ==
    [f \in {g \in DOMAIN screen :
               /\ g = "id" => screen[g] # Undefined
               /\ g \in {"name", "route"} => screen[g] # UndefinedChars} |->
        screen[f]]

\* JSON.parse(JSON.stringify(jsonData))
Json(jsonData) ==
    [jsonData EXCEPT !.screens = [i \in DOMAIN @ |-> JsonScreen(@[i])]]

\* the screens for which screen.components is undefined: each of them
\* makes loadProject call createDefaultComponent('Scaffold')
DefaultedScreens(screens) ==
    {i \in DOMAIN screens : "components" \notin DOMAIN screens[i]}

\* the screens of proj that are given a default root, none when the
\* document has no screens to map over
DefaultedCount(proj) ==
    IF "json_data" \in DOMAIN proj /\ "screens" \in DOMAIN proj.json_data
    THEN Cardinality(DefaultedScreens(proj.json_data.screens))
    ELSE 0

\* the readings n successive calls of Date.now() can give, t being the
\* first of them
RECURSIVE ClockRuns(_, _)
ClockRuns(t, n) ==
    IF n = 0 THEN {<<>>}
    ELSE IF t > MaxClock THEN {}
    ELSE {<<t>> \o run :
             run \in UNION {ClockRuns(u, n - 1) : u \in LaterReadings(t)}}

LoadedPages_FreshRoot(screens, ts, rs) ==
    [i \in DOMAIN screens |->
        [id |-> IF "id" \in DOMAIN screens[i] THEN screens[i].id
                ELSE Undefined,
         name |-> CharsField(screens[i], "name"),
         route |-> CharsField(screens[i], "route"),
         is_home |-> screens[i].is_home,
         components |->
            <<createDefaultComponent("Scaffold",
                                     IF i \in DOMAIN ts THEN ts[i] ELSE 0,
                                     IF i \in DOMAIN rs THEN rs[i]
                                     ELSE "k3x")>>]]

\* proj.json_data.screens.map((screen) => ({ ... })) of loadProject: the
\* k-th screen without components takes the k-th reading of the clock
\* ts[k] and the k-th random draw rs[k] for the id of its default root
LoadedPages(screens, ts, rs) ==
    LET nth(i) == Cardinality({j \in DefaultedScreens(screens) : j <= i})
    IN  [i \in DOMAIN screens |->
            [id |-> IF "id" \in DOMAIN screens[i] THEN screens[i].id
                    ELSE Undefined,
             name |-> CharsField(screens[i], "name"),
             route |-> CharsField(screens[i], "route"),
             is_home |-> screens[i].is_home,
             components |->
                IF "components" \in DOMAIN screens[i]
                THEN screens[i].components
                ELSE <<createDefaultComponent("Scaffold", ts[nth(i)],
                                              rs[nth(i)])>>]]

\* loadedPages[0]?.id || ''
FirstPageId(loadedPages) ==
    IF loadedPages = <<>> \/ loadedPages[1].id = Undefined THEN ""
    ELSE loadedPages[1].id

\* the Project held by setProject: the fields the editor reads later
ProjectOf(proj) ==
    <<[id |-> proj.id, name |-> proj.name, description |-> proj.description]>>

\* loadProject when api.getProject(id) resolves with proj, ts and rs being
\* the clock readings and the random draws of its createDefaultComponent
\* calls
loadProject(proj, ts, rs) ==
    /\ isLoading
    /\ location = BuilderLocation
    /\ Len(ts) = DefaultedCount(proj)
    /\ Len(rs) = DefaultedCount(proj)
    /\ project' = ProjectOf(proj)
    /\ isLoading' = FALSE
    /\ IF "json_data" \notin DOMAIN proj
       \* proj.json_data.screens throws: the catch block
       THEN /\ toastMsg' = Toast("error", "Failed to load project")
            /\ location' = Dashboard
            /\ UNCHANGED <<pages, currentPageId, now>>
       ELSE IF "screens" \notin DOMAIN proj.json_data
       THEN /\ toastMsg' = NoToast
            /\ UNCHANGED <<pages, currentPageId, now, location>>
       ELSE LET loadedPages == LoadedPages(proj.json_data.screens, ts, rs)
            IN  /\ pages' = loadedPages
                /\ currentPageId' = FirstPageId(loadedPages)
                /\ now' = IF ts = <<>> THEN now ELSE ts[Len(ts)]
                /\ toastMsg' = NoToast
                /\ UNCHANGED location
    /\ writes' = {}
    /\ emitted' = NoDocument
    /\ UNCHANGED <<selectedComponentId, isSaving, validationErrors, inflight>>
    /\ Rendered
    /\ HarnessIdle
    /\ NoDashboard
    /\ NoForm

\* loadProject when api.getProject(id) rejects
loadProject_Rejected ==
    /\ isLoading
    /\ location = BuilderLocation
    /\ toastMsg' = Toast("error", "Failed to load project")
    /\ location' = Dashboard
    /\ isLoading' = FALSE
    /\ writes' = {}
    /\ emitted' = NoDocument
    /\ UNCHANGED <<pages, currentPageId, selectedComponentId, now, project,
                   isSaving, validationErrors, inflight>>
    /\ Rendered
    /\ HarnessIdle
    /\ NoDashboard
    /\ NoForm

SaveBlocked_Never(validationMessages) == FALSE

\* !validation.isValid
SaveBlocked(validationMessages) == validationMessages # <<>>

SaveButtonEnabled_Always == TRUE

\* the Save button: disabled={isSaving}
SaveButtonEnabled == ~isSaving

\* handleSaveProject up to its await: the Save button is disabled while
\* isSaving
handleSaveProject ==
    LET projectData == ProjectDataOf(project, pages)
        validation == validateProjectForm(projectData)
    IN  /\ Mounted
        /\ SaveButtonEnabled
        /\ IF SaveBlocked(validation)
           THEN /\ validationErrors' = validation
                /\ toastMsg' = Toast("error", "Please fix validation errors")
                /\ emitted' = NoDocument
                /\ UNCHANGED <<isSaving, inflight>>
           ELSE /\ validationErrors' = <<>>
                /\ isSaving' = TRUE
                /\ inflight' = Append(inflight,
                      IF project # NoProject
                      THEN [op |-> "update", id |-> project[1].id,
                            name |-> projectData.name,
                            description |-> projectData.description]
                      ELSE [op |-> "create", id |-> 0,
                            name |-> projectData.name,
                            description |-> projectData.description])
                /\ emitted' = [kind |-> IF project # NoProject
                                        THEN "update" ELSE "create",
                               json_data |-> Json(projectData.json_data)]
                /\ toastMsg' = NoToast
        /\ writes' = {}
        /\ UNCHANGED <<pages, currentPageId, selectedComponentId, now,
                       project, isLoading, location>>
        /\ Rendered
        /\ HarnessIdle
        /\ NoDashboard
        /\ NoForm

\* the id the service gives to a project it creates
ServiceProjectId == 7

\* handleSaveProject after its await, the request having succeeded: the
\* service answers a create with the project it stored
handleSaveProject_Resolved ==
    /\ inflight # <<>>
    /\ IF Head(inflight).op = "update"
       THEN /\ toastMsg' = Toast("success", "Project saved successfully")
            /\ UNCHANGED project
       ELSE /\ project' = <<[id |-> ServiceProjectId,
                             name |-> Head(inflight).name,
                             description |-> Head(inflight).description]>>
            /\ toastMsg' = Toast("success", "Project created successfully")
    /\ isSaving' = FALSE
    /\ inflight' = Tail(inflight)
    /\ writes' = {}
    /\ emitted' = NoDocument
    /\ UNCHANGED <<pages, currentPageId, selectedComponentId, now, isLoading,
                   validationErrors, location>>
    /\ Rendered
    /\ HarnessIdle
    /\ NoDashboard
    /\ NoForm

handleSaveProject_Rejected_StillSaving(message) ==
    /\ inflight # <<>>
    /\ toastMsg' = Toast("error", message)
    /\ inflight' = Tail(inflight)
    /\ writes' = {}
    /\ emitted' = NoDocument
    /\ UNCHANGED <<pages, currentPageId, selectedComponentId, now, isLoading,
                   validationErrors, location, project, isSaving>>
    /\ Rendered
    /\ HarnessIdle
    /\ NoDashboard
    /\ NoForm

\* handleSaveProject after its await, the request having failed with the
\* Error that FlutterBuilderAPI.handleError made
handleSaveProject_Rejected(message) ==
    /\ inflight # <<>>
    /\ toastMsg' = Toast("error", message)
    /\ isSaving' = FALSE
    /\ inflight' = Tail(inflight)
    /\ writes' = {}
    /\ emitted' = NoDocument
    /\ UNCHANGED <<pages, currentPageId, selectedComponentId, now, isLoading,
                   validationErrors, location, project>>
    /\ Rendered
    /\ HarnessIdle
    /\ NoDashboard
    /\ NoForm

handleExportJSON ==
    /\ Mounted
    /\ emitted' = [kind |-> "export",
                   json_data |-> Json(JsonDataOf(project, pages))]
    /\ toastMsg' = Toast("success", "JSON exported")
    /\ writes' = {}
    /\ UNCHANGED <<pages, currentPageId, selectedComponentId, now, project,
                   isLoading, isSaving, validationErrors, inflight, location>>
    /\ Rendered
    /\ HarnessIdle
    /\ NoDashboard
    /\ NoForm

\* the projects the service answers api.getProject with: a well-formed
\* one, some whose name gives no valid app_name (a leading digit, a letter
\* outside ASCII next to a tab), one whose name is tabs only, and malformed
\* documents
HomeScreen ==
    [id |-> "home", name |-> <<"H", "o", "m", "e">>, route |-> <<"/">>,
     is_home |-> TRUE,
     components |->
        <<[id |-> ComponentId("Scaffold", 0, "k3x"), type |-> "Scaffold",
           props |-> EmptyProps,
           children |->
              <<[id |-> ComponentId("Text", 0, "q9z"), type |-> "Text",
                 props |-> [text |-> "Hi"], children |-> <<>>]>>]>>]
Document(screens) ==
    [app_name |-> MyApp, package_name |-> ComExampleApp, screens |-> screens]
StoredProject(name, jsonData) ==
    [id |-> 3, name |-> name, description |-> <<>>, json_data |-> jsonData]
MyAppName == <<"M", "y", " ", "A", "p", "p">>
ProjectInputs ==
    {StoredProject(MyAppName, Document(<<HomeScreen>>)),
     StoredProject(<<"2", "g", "o">>, Document(<<HomeScreen>>)),
     StoredProject(<<"U+00C9", "\t", "B">>, Document(<<HomeScreen>>)),
     StoredProject(<<"\t", "\t", "\t">>, Document(<<HomeScreen>>)),
     StoredProject(MyAppName,
        Document(<<HomeScreen,
                   [id |-> "about", name |-> <<"A", "b", "o", "u", "t">>,
                    route |-> <<"/", "a">>, is_home |-> FALSE,
                    components |-> <<>>]>>)),
     StoredProject(MyAppName,
        Document(<<[id |-> "Home-1", name |-> <<"H", "o", "m", "e">>,
                    is_home |-> TRUE]>>)),
     StoredProject(MyAppName,
        Document(<<[id |-> "home", name |-> <<"H", "o", "m", "e">>,
                    route |-> <<"/">>, is_home |-> TRUE],
                   [id |-> "about", name |-> <<"A", "b", "o", "u", "t">>,
                    route |-> <<"/", "a">>, is_home |-> FALSE]>>)),
     StoredProject(MyAppName,
                   [app_name |-> MyApp, package_name |-> ComExampleApp]),
     [id |-> 3, name |-> MyAppName, description |-> <<>>]}
FailureMessages == {"Network Error"}

\* the state after construction with a projectId: the mount effect has
\* called loadProject and the answer of the service is awaited
InitExisting ==
    /\ DashboardInitial
    /\ now = 1
    /\ pages = <<>>
    /\ currentPageId = ""
    /\ selectedComponentId = Null
    /\ toastMsg = NoToast
    /\ crashed = FALSE
    /\ writes = {}
    /\ call = [fn |-> "none"]
    /\ ret = [ok |-> TRUE]
    /\ project = NoProject
    /\ isLoading = TRUE
    /\ isSaving = FALSE
    /\ validationErrors = <<>>
    /\ inflight = <<>>
    /\ emitted = NoDocument
    /\ location = BuilderLocation
    /\ errors = NoErrors

InitSave == Init \/ InitExisting

NextSave ==
    \/ \E proj \in ProjectInputs :
          \E ts \in ClockRuns(now + 1, DefaultedCount(proj)),
             rs \in [1..DefaultedCount(proj) -> AnyRandomSuffixes] :
             loadProject(proj, ts, rs)
    \/ loadProject_Rejected
    \/ handleSaveProject
    \/ handleSaveProject_Resolved
    \/ \E message \in FailureMessages : handleSaveProject_Rejected(message)
    \/ handleExportJSON
    \/ \E t \in ClockReadings, r \in RandomSuffixes :
          handleAddComponent("Text", t, r)
    \/ \E props \in PropInputs : SelectionResolves /\ handleUpdateProps(props)
    \/ \E t \in ClockReadings, r \in RandomSuffixes :
          \E u \in LaterReadings(t) :
             PageManager_handleAddPage(<<"H", "o", "m", "e">>, ProfileRoute,
                                       FALSE, t, u, r)
    \/ \E id \in PageIds(pages) : onSelectPage(id)
    \/ onBack

SpecSave == InitSave /\ [][NextSave]_vars

\* the service answers every request, with a response or with an error
SpecSaveFair ==
    SpecSave
    /\ WF_vars(handleSaveProject_Resolved
               \/ \E message \in FailureMessages :
                     handleSaveProject_Rejected(message))

----------------------------------------------------------------------------
(* The registry functions and the tree helpers called directly, on every   *)
(* kind of the registry and on every forest of up to MaxTreeNodes nodes.   *)

NodeVariants ==
    {[type |-> "Container", props |-> EmptyProps],
     [type |-> "Container", props |-> [padding |-> 8]],
     [type |-> "Text", props |-> [text |-> "Hi"]]}

UnregisteredKind == "Widget"

Size(component) == Cardinality(NodeIds(component))

\* the trees of at most n nodes, and the forests of at most n nodes, whose
\* nodes were created at the clock readings c, c + 1, ... in preorder
RECURSIVE TreesFrom(_, _)
RECURSIVE ForestsFrom(_, _)
TreesFrom(n, c) ==
    IF n = 0 THEN {}
    ELSE {[id |-> ComponentId(v.type, c, "k3x"), type |-> v.type,
           props |-> v.props, children |-> f] :
             v \in NodeVariants, f \in ForestsFrom(n - 1, c + 1)}

ForestsFrom(n, c) ==
    {<<>>} \cup
    UNION {{<<tr>> \o rest :
               rest \in ForestsFrom(n - Size(tr), c + Size(tr))} :
             tr \in TreesFrom(n, c)}

ForestInputs == ForestsFrom(MaxTreeNodes, 1)

\* the ids a helper is called with: those of the forest and one of no node
IdArgs(components) == ForestIds(components) \cup {StaleId}

\* the harness makes one call per run
Idle == call.fn = "none"

Returned(value) == [ok |-> TRUE, value |-> value]

\* the nesting check of lib/validation.ts: invalidCombinations[childType],
\* <<>> for undefined where the table has no such key, <<parents>> for the
\* array of an own key (the same ten parent kinds under every key, but for
\* ListView, whose array leaves ListView out), and the member that the
\* object literal inherits from Object.prototype under an inherited name
invalidCombinations(childType) ==
    LET parents == {"Scaffold", "Row", "Column", "Container", "Stack",
                    "Card", "ListView", "Center", "Padding", "Expanded"}
    IN  IF childType \in {"AppBar", "TextField", "Button", "Text", "Icon",
                          "Image", "SizedBox"}
        THEN <<parents>>
        ELSE IF childType = "ListView" THEN <<parents \ {"ListView"}>>
        ELSE IF childType \in InheritedNames
        THEN <<[inherited |-> childType]>>
        ELSE <<>>

\* validateComponentNesting: the messages of the errors it returns; an
\* inherited member is no array, so the call of its includes, which is
\* undefined, throws a TypeError
validateComponentNesting(parentType, childType) ==
    LET entry == invalidCombinations(childType)
    IN  IF entry = <<>> THEN Returned(<<>>)
        ELSE IF childType \in InheritedNames
        THEN [ok |-> FALSE,
              message |-> "invalidCombinations[childType]?.includes is "
                          \o "not a function"]
        ELSE IF parentType \in entry[1]
        THEN Returned(<<childType \o " cannot be a child of "
                                 \o parentType>>)
        ELSE Returned(<<>>)

Call_validateComponentNesting(parentType, childType) ==
    /\ Idle
    /\ call' = [fn |-> "validateComponentNesting",
                parentType |-> parentType, childType |-> childType]
    /\ ret' = validateComponentNesting(parentType, childType)
    /\ UNCHANGED editorVars
    /\ NoDashboard

Call_canContainWidget(parentType, childType) ==
    /\ Idle
    /\ call' = [fn |-> "canContainWidget", parentType |-> parentType,
                childType |-> childType]
    /\ ret' = Returned(canContainWidget(parentType, childType))
    /\ UNCHANGED editorVars
    /\ NoDashboard

Call_createDefaultComponent(type, t, r) ==
    /\ Idle
    /\ call' = [fn |-> "createDefaultComponent", type |-> type]
    /\ ret' = IF ~IsRegistered(type)
              THEN [ok |-> FALSE,
                    message |-> "Unknown widget type: " \o type]
              ELSE Returned(createDefaultComponent(type, t, r))
    /\ UNCHANGED editorVars
    /\ NoDashboard

Call_updateComponentInTree(components, id, props) ==
    /\ Idle
    /\ call' = [fn |-> "updateComponentInTree", components |-> components,
                id |-> id, props |-> props]
    /\ ret' = Returned(updateComponentInTree(components, id, SetProps(props)))
    /\ UNCHANGED editorVars
    /\ NoDashboard

Call_deleteComponentFromTree(components, id) ==
    /\ Idle
    /\ call' = [fn |-> "deleteComponentFromTree", components |-> components,
                id |-> id]
    /\ ret' = Returned(deleteComponentFromTree(components, id))
    /\ UNCHANGED editorVars
    /\ NoDashboard

\* the routes handed to validateRoute: every string of at most MaxRouteLen
\* characters over an alphabet with an allowed letter, digit and hyphen, an
\* upper-case letter, a blank and a tab
RouteArgs ==
    UNION {[1..n -> {"/", "a", "1", "-", "A", " ", "\t"}] :
             n \in 0..MaxRouteLen}

\* { isValid: errors.length === 0, errors }, every error of field 'route'
Call_validateRoute(route, existingRoutes) ==
    LET messages == validateRoute(route, existingRoutes)
    IN  /\ Idle
        /\ call' = [fn |-> "validateRoute", route |-> route,
                    existingRoutes |-> existingRoutes]
        /\ ret' = Returned([isValid |-> Len(messages) = 0,
                            errors |-> [i \in DOMAIN messages |->
                                          [field |-> "route",
                                           message |-> messages[i]]]])
        /\ UNCHANGED editorVars
        /\ NoDashboard

\* one call of one function, made while no call has been made
NextFn ==
    \/ /\ Idle
       /\ \E route \in RouteArgs,
             existingRoutes \in {<<>>, << <<"/">> >>,
                                 << <<"/">>, <<"/", "a">> >>} :
             Call_validateRoute(route, existingRoutes)
    \/ /\ Idle
       /\ \E parentType \in WIDGET_TYPES
                               \cup {UnregisteredKind, "constructor"},
             childType \in WIDGET_TYPES :
             Call_canContainWidget(parentType, childType)
    \/ /\ Idle
       /\ \E type \in WIDGET_TYPES \cup {UnregisteredKind, "constructor"},
             r \in RandomSuffixes :
             Call_createDefaultComponent(type, 1, r)
    \/ /\ Idle
       /\ \E parentType \in WIDGET_TYPES,
             childType \in WIDGET_TYPES
                              \cup {UnregisteredKind, "constructor"} :
             Call_validateComponentNesting(parentType, childType)
    \/ /\ Idle
       /\ \E components \in ForestInputs :
             \E id \in IdArgs(components),
                props \in {EmptyProps, [text |-> "Bye"]} :
                Call_updateComponentInTree(components, id, props)
    \/ /\ Idle
       /\ \E components \in ForestInputs :
             \E id \in IdArgs(components) :
                Call_deleteComponentFromTree(components, id)

SpecFn == Init /\ [][NextFn]_vars

----------------------------------------------------------------------------
(* Vocabulary of the properties: a forest read as a table of its nodes.    *)

ChildIds(component) ==
    [i \in DOMAIN component.children |-> component.children[i].id]

RECURSIVE NodeTable(_)
NodeTable(components) ==
    IF components = <<>> THEN {}
    ELSE LET c == Head(components)
         IN  {[id |-> c.id, type |-> c.type, props |-> c.props,
               kids |-> ChildIds(c)]}
             \cup NodeTable(c.children) \cup NodeTable(Tail(components))

RootIds(components) == [i \in DOMAIN components |-> components[i].id]

\* the parent/child edges of a forest, as pairs of widget kinds
RECURSIVE KindEdges(_)
KindEdges(components) ==
    IF components = <<>> THEN {}
    ELSE LET c == Head(components)
         IN  {<<c.type, c.children[i].type>> : i \in DOMAIN c.children}
             \cup KindEdges(c.children) \cup KindEdges(Tail(components))

\* the ids of the node id and of its descendants, read off a node table
RECURSIVE SubtreeIds(_, _)
SubtreeIds(table, id) ==
    {id} \cup UNION {UNION {SubtreeIds(table, e.kids[i]) : i \in DOMAIN e.kids} :
                       e \in {x \in table : x.id = id}}

WithoutIds(ids, removed) == SelectSeq(ids, LAMBDA x : x \notin removed)

RECURSIVE Depth(_)
Depth(components) ==
    IF components = <<>> THEN 0
    ELSE LET d1 == 1 + Depth(Head(components).children)
             d2 == Depth(Tail(components))
         IN  IF d1 > d2 THEN d1 ELSE d2

----------------------------------------------------------------------------
(* C1: in every state reachable from a new project, every parent/child     *)
(* edge of every page's tree is one that canContainWidget allows.          *)
C1_EdgesAllowed ==
    \A i \in DOMAIN pages :
        \A e \in KindEdges(pages[i].components) :
            canContainWidget(e[1], e[2]) = <<TRUE>>

\* a tree three levels deep, built by insertions under the root and under
\* a nested container
C1_Witness ==
    \E i \in DOMAIN pages :
        /\ Depth(pages[i].components) = 3
        /\ <<"Scaffold", "Container">> \in KindEdges(pages[i].components)
        /\ <<"Container", "Text">> \in KindEdges(pages[i].components)

----------------------------------------------------------------------------
(* C2 as stated: for every registered kind K whose definition has          *)
(* canHaveChildren = false and every child kind C, canContainWidget(K, C)  *)
(* is false.                                                               *)
C2_LeafNeverContains ==
    (call.fn = "canContainWidget" /\ call.parentType \in WIDGET_TYPES
       /\ ~getWidgetDefinition(call.parentType).canHaveChildren)
    => ret.value = <<FALSE>>

(* C2 amended: for every registered kind K other than ListView whose       *)
(* definition has canHaveChildren = false and every child kind C,          *)
(* canContainWidget(K, C) is false; canContainWidget("ListView", C) is     *)
(* true for every C.                                                       *)
C2_LeafNeverContainsButListView ==
    (call.fn = "canContainWidget" /\ call.parentType \in WIDGET_TYPES
       /\ ~getWidgetDefinition(call.parentType).canHaveChildren)
    => ret.value = <<call.parentType = "ListView">>

C2_Witness ==
    /\ call.fn = "canContainWidget"
    /\ call.parentType = "Text"
    /\ call.childType = "Text"
    /\ ret.value = <<FALSE>>

----------------------------------------------------------------------------
\* the nodes of the page being viewed that carry the id
NodesOfCurrentPage(id) ==
    {e \in NodeTable(CurrentPage(pages, currentPageId).components) : e.id = id}

\* an add-child that must be turned down: the parent id names no node of
\* the page being viewed, or names a node whose kind cannot contain the child
MustReject(parentId, childType) ==
    \/ NodesOfCurrentPage(parentId) = {}
    \/ \E e \in NodesOfCurrentPage(parentId) :
          ~Truthy(canContainWidget(e.type, childType))

\* the message of a rejection: the parent's kind, when there is a parent
\* (`${undefined}` otherwise), and the child's kind
RejectionText(parentId, childType) ==
    (IF NodesOfCurrentPage(parentId) = {} THEN Undefined
     ELSE (CHOOSE e \in NodesOfCurrentPage(parentId) : TRUE).type)
    \o " cannot contain " \o childType

AddChildStep(parentId, childType) ==
    \E r \in RandomSuffixes : handleAddChild(parentId, childType, now + 1, r)

(* C3: an add-child that canContainWidget rejects (a Text child under a    *)
(* Text parent among them), or whose parent id does not resolve, raises an *)
(* error message naming the parent's kind (where a parent was found) and   *)
(* the child's kind, and leaves the page collection exactly as it was.     *)
C3_RejectedAddChildKeepsPages ==
    [][\A parentId \in AllIds(pages) \cup {StaleId}, childType \in PaletteKinds :
          (AddChildStep(parentId, childType) /\ MustReject(parentId, childType))
          => /\ pages' = pages
             /\ toastMsg' = Toast("error", RejectionText(parentId, childType))
      ]_vars

\* a Text child was just refused under a Text node of the page
C3_Witness ==
    /\ toastMsg = Toast("error", "Text cannot contain Text")
    /\ \E e \in NodeTable(CurrentPage(pages, currentPageId).components) :
          e.type = "Text" /\ e.kids = <<>>

----------------------------------------------------------------------------
(* C4 as stated: a node produced by createDefaultComponent(kind) carries   *)
(* every defaultValue that the kind's property descriptors declare (a Text *)
(* node carries text = "Hello World").                                     *)
C4_DefaultsCopied ==
    (call.fn = "createDefaultComponent" /\ ret.ok)
    => \A n \in DOMAIN DeclaredDefaults(call.type) :
          /\ n \in DOMAIN ret.value.props
          /\ ret.value.props[n] = DeclaredDefaults(call.type)[n]

----------------------------------------------------------------------------
\* the roots of a forest that hold the id
RootsHolding(components, id) ==
    {k \in DOMAIN components : id \in NodeIds(components[k])}

(* C5: for a forest with pairwise distinct ids, an id present in it and a  *)
(* property map P, findComponentById finds in the result of                *)
(* updateComponentInTree a node whose props equal P, and every other node  *)
(* keeps its type, props and child order.                                  *)
C5_UpdateThenFind ==
    (call.fn = "updateComponentInTree"
       /\ call.id \in ForestIds(call.components))
    => /\ \A k \in RootsHolding(call.components, call.id) :
             /\ findComponentById(ret.value[k], call.id) # {}
             /\ \A n \in findComponentById(ret.value[k], call.id) :
                   n.props = call.props
       /\ RootIds(ret.value) = RootIds(call.components)
       /\ NodeTable(ret.value) =
             {IF e.id = call.id THEN [e EXCEPT !.props = call.props] ELSE e :
                e \in NodeTable(call.components)}

\* the props of a nested node of a three-node forest were replaced
C5_Witness ==
    /\ call.fn = "updateComponentInTree"
    /\ Cardinality(ForestIds(call.components)) = 3
    /\ Depth(call.components) = 3
    /\ \E e \in NodeTable(call.components) :
          e.id = call.id /\ e.kids = <<>> /\ e.props # call.props
    /\ ret.ok

(* C6 as stated: an update whose node id does not resolve in the tree is a *)
(* failure reported to the caller, never a silent no-op.                   *)
C6_UnresolvedUpdateFails ==
    (call.fn = "updateComponentInTree"
       /\ call.id \notin ForestIds(call.components))
    => ~ret.ok

(* C7: deleting an id that occurs nowhere in a forest returns the forest   *)
(* itself, and deleting the same id a second time changes nothing more.    *)
C7_DeleteAbsentIsIdentity ==
    (call.fn = "deleteComponentFromTree")
    => /\ call.id \notin ForestIds(call.components)
             => ret.value = call.components
       /\ deleteComponentFromTree(ret.value, call.id) = ret.value

C7_Witness ==
    /\ call.fn = "deleteComponentFromTree"
    /\ call.id \notin ForestIds(call.components)
    /\ Cardinality(ForestIds(call.components)) = 3
    /\ Depth(call.components) >= 2
    /\ ret.value = call.components

(* C8: deleting an id present in a forest removes that node and all its    *)
(* descendants (none of their ids is found afterwards); every other node   *)
(* stays under the same parent with its type, its props and the relative   *)
(* order of its remaining children.                                        *)
C8_DeleteRemovesSubtreeOnly ==
    (call.fn = "deleteComponentFromTree"
       /\ call.id \in ForestIds(call.components))
    => LET table == NodeTable(call.components)
           removed == SubtreeIds(table, call.id)
       IN  /\ \A k \in DOMAIN ret.value : \A x \in removed :
                 findComponentById(ret.value[k], x) = {}
           /\ ForestIds(ret.value) = ForestIds(call.components) \ removed
           /\ RootIds(ret.value) =
                 WithoutIds(RootIds(call.components), removed)
           /\ NodeTable(ret.value) =
                 {[e EXCEPT !.kids = WithoutIds(e.kids, removed)] :
                    e \in {x \in table : x.id \notin removed}}

\* the middle node of a chain of three was deleted, and its child with it
C8_Witness ==
    /\ call.fn = "deleteComponentFromTree"
    /\ Cardinality(ForestIds(call.components)) = 3
    /\ Depth(call.components) = 3
    /\ call.id \notin {call.components[k].id : k \in DOMAIN call.components}
    /\ Cardinality(SubtreeIds(NodeTable(call.components), call.id)) = 2
    /\ Cardinality(ForestIds(ret.value)) = 1

----------------------------------------------------------------------------
(* C9: a successful add-child under parent P appends the new node as the   *)
(* last child of P: P's previous children keep their order and positions,  *)
(* P has exactly one more child, and no other node of any page changes.    *)
C9_AddChildAppends ==
    [][\A parentId \in AllIds(pages), childType \in PaletteKinds :
          (AddChildStep(parentId, childType)
             /\ ~MustReject(parentId, childType))
          => LET before == NodeTable(CurrentPage(pages, currentPageId).components)
                 after == NodeTable(CurrentPage(pages', currentPageId).components)
                 newId == selectedComponentId'
             IN  /\ newId \notin AllIds(pages)
                 /\ {e \in after : e.id # newId} =
                       {IF e.id = parentId
                        THEN [e EXCEPT !.kids = Append(@, newId)] ELSE e :
                          e \in before}
                 /\ \E e \in after :
                       /\ e.id = newId /\ e.type = childType /\ e.kids = <<>>
                       /\ \A x \in after : x.id = newId => x = e
                 /\ RootIds(CurrentPage(pages', currentPageId).components) =
                       RootIds(CurrentPage(pages, currentPageId).components)
                 /\ Len(pages') = Len(pages)
                 /\ \A i \in DOMAIN pages :
                       pages[i].id # currentPageId => pages'[i] = pages[i]
      ]_vars

\* a child was just appended behind an earlier child of the root
C9_Witness ==
    /\ toastMsg = Toast("success", "Added Text to Scaffold")
    /\ \E root \in {CurrentPage(pages, currentPageId).components[1]} :
          /\ Len(root.children) = 2
          /\ root.children[2].id = selectedComponentId
          /\ root.children[1].type = "Container"

(* C10 as stated: no tree-editing handler (palette add, add-child, update  *)
(* props, delete) writes to the tree held before the action: whoever kept  *)
(* the previous page collection sees the same trees afterwards.            *)
C10_HandlersNeverMutate ==
    [][((\E type \in PaletteKinds, r \in RandomSuffixes :
            handleAddComponent(type, now + 1, r))
        \/ (\E parentId \in AllIds(pages) \cup {StaleId},
               childType \in PaletteKinds : AddChildStep(parentId, childType))
        \/ (\E props \in PropInputs : handleUpdateProps(props))
        \/ handleDeleteComponent)
       => HeldView(pages, writes') = pages
      ]_vars

----------------------------------------------------------------------------
(* C11 as stated: in every reachable state no component identifier occurs  *)
(* at two places of the project (not twice in one tree, not in two pages), *)
(* whatever the clock readings and the random draws the identifiers were   *)
(* built from.                                                             *)
C11_ComponentIdsUnique == NodeCount(pages) = Cardinality(AllIds(pages))

----------------------------------------------------------------------------
(* Vocabulary of the page claims.                                          *)

RoutesDistinct(pg) ==
    \A i, j \in DOMAIN pg : i # j => pg[i].route # pg[j].route

DuplicateRouteErrors == [route |-> "This route already exists"]

AddPageStep(pageName, pageRoute, isHome) ==
    \E r \in RandomSuffixes :
        \E u \in LaterReadings(now + 1) :
            PageManager_handleAddPage(pageName, pageRoute, isHome, now + 1,
                                      u, r)

\* the pages left when the pages with the id are taken out, in order
Remaining(pg, id) == SelectSeq(pg, LAMBDA p : p.id # id)

(* C12: an add-page whose route equals the route of an existing page is    *)
(* rejected with the duplicate-route error and leaves the page collection  *)
(* unchanged; after any sequence of page add, edit and delete actions from *)
(* a new project the routes of the pages are pairwise distinct.            *)
C12_RoutesStayDistinct ==
    /\ []RoutesDistinct(pages)
    /\ [][\A pageName \in PageNameInputs, pageRoute \in PageRouteInputs,
             isHome \in BOOLEAN :
             (AddPageStep(pageName, pageRoute, isHome)
                /\ \E i \in DOMAIN pages : pages[i].route = pageRoute)
             => /\ pages' = pages
                /\ "route" \in DOMAIN errors'
                /\ errors'["route"] = DuplicateRouteErrors["route"]
         ]_vars

\* the only page is at "/" and the form has just refused a second page at
\* "/" (an edit of the only page has no other page to collide with)
C12_Witness ==
    /\ Len(pages) = 1
    /\ pages[1].route = <<"/">>
    /\ errors = DuplicateRouteErrors

(* C13: an edit is validated against the routes of the other pages only:   *)
(* an edit to the route of another page is rejected with the duplicate-    *)
(* route error and leaves the page collection unchanged, while an edit     *)
(* with a valid name that keeps the page's own route is accepted and       *)
(* installs the name, the route and the home flag of the form.             *)
C13_EditChecksOtherPagesOnly ==
    [][\A id \in PageIds(pages) :
       \A pageName \in EditNameInputs(id),
          pageRoute \in PageRouteInputs \cap Range(Routes(pages)),
          isHome \in BOOLEAN :
          PageManager_handleEditPage(id, pageName, pageRoute, isHome)
          => /\ (\E i \in DOMAIN pages :
                    pages[i].id # id /\ pages[i].route = pageRoute)
                => (pages' = pages /\ errors' = DuplicateRouteErrors
                                      @@ errors')
             /\ (/\ Len(pageName) >= 2
                 /\ \E i \in DOMAIN pages :
                       pages[i].id = id /\ pages[i].route = pageRoute)
                => /\ errors' = NoErrors
                   /\ toastMsg' = Toast("success", "Page updated")
                   /\ Len(pages') = Len(pages)
                   /\ \A i \in DOMAIN pages :
                         IF pages[i].id = id
                         THEN pages'[i] =
                                [pages[i] EXCEPT !.name = pageName,
                                                 !.is_home = isHome]
                         ELSE pages'[i] = pages[i]
      ]_vars

\* with pages at "/" and "/profile", a form asking for a route in use was
\* just refused
C13_Witness ==
    /\ Routes(pages) = <<<<"/">>, ProfileRoute>>
    /\ errors = DuplicateRouteErrors
    /\ toastMsg = NoToast

(* C14: a delete-page while the collection holds exactly one page is       *)
(* rejected with an error and leaves the collection unchanged; in every    *)
(* state reachable from a new project there is at least one page.          *)
C14_LastPageStays ==
    /\ [](Len(pages) >= 1)
    /\ [][\A id \in PageIds(pages) :
             (handleDeletePage(id) /\ Len(pages) = 1)
             => /\ pages' = pages
                /\ currentPageId' = currentPageId
                /\ toastMsg' = Toast("error",
                                     "You must have at least one page")
         ]_vars

C14_Witness ==
    /\ Len(pages) = 1
    /\ toastMsg = Toast("error", "You must have at least one page")

(* C15: a delete-page that is carried out makes the first of the remaining *)
(* pages the current page when the page deleted was the current one, and   *)
(* leaves the current page alone when another page was deleted.            *)
C15_DeleteCurrentFallsBackToFirst ==
    [][\A id \in PageIds(pages) :
          (handleDeletePage(id) /\ Len(pages) > 1)
          => /\ pages' = Remaining(pages, id)
             /\ currentPageId' = IF currentPageId = id
                                 THEN Remaining(pages, id)[1].id
                                 ELSE currentPageId
      ]_vars

\* the page created last, which its creation made current, was deleted
\* and the first of the two remaining pages is current
C15_Witness ==
    /\ toastMsg = Toast("success", "Page deleted")
    /\ Len(pages) = 2
    /\ PageId(now) \notin PageIds(pages)
    /\ currentPageId = pages[1].id

(* C16 as stated: in every state reachable from a new project by page add, *)
(* edit and delete actions exactly one page is marked home.                *)
C16_ExactlyOneHome ==
    Cardinality({i \in DOMAIN pages : pages[i].is_home}) = 1

----------------------------------------------------------------------------
(* Vocabulary of the document claims.                                      *)

\* a forest without its ids: kind, property values and child order
RECURSIVE ShapeOf(_)
ShapeOf(components) ==
    [i \in DOMAIN components |->
        [type |-> components[i].type, props |-> components[i].props,
         children |-> ShapeOf(components[i].children)]]

\* a stored project whose document the JSON schema rejects
Malformed(proj) ==
    \/ "json_data" \notin DOMAIN proj
    \/ validateJsonData(proj.json_data) # <<>>

LoadStep(proj) ==
    \E ts \in ClockRuns(now + 1, DefaultedCount(proj)),
       rs \in [1..DefaultedCount(proj) -> AnyRandomSuffixes] :
       loadProject(proj, ts, rs)

(* C17: the document that an export or a save has just built from the page *)
(* collection, loaded back the way loadProject loads it, gives as many     *)
(* pages, the same routes in the same order and, page by page, the same    *)
(* tree shape (kind and child order at every node) and property values.    *)
C17_RoundTrip ==
    emitted.kind # "none"
    => LET screens == emitted.json_data.screens
           back == LoadedPages(screens, [i \in DOMAIN screens |-> now + 1],
                               [i \in DOMAIN screens |-> "k3x"])
       IN  /\ Len(back) = Len(pages)
           /\ Routes(back) = Routes(pages)
           /\ \A i \in DOMAIN pages :
                 ShapeOf(back[i].components) = ShapeOf(pages[i].components)

\* two pages, one with a nested node carrying a property value, were just
\* exported
C17_Witness ==
    /\ emitted.kind = "export"
    /\ Len(pages) = 2
    /\ \E i \in DOMAIN pages :
          /\ Depth(pages[i].components) = 2
          /\ \E e \in NodeTable(pages[i].components) : e.props # EmptyProps

(* C18 as stated: loading a malformed document (a screen without a         *)
(* required field, an identifier of the wrong pattern, an empty component  *)
(* list, no screens) surfaces an error and installs nothing.               *)
C18_MalformedLoadInstallsNothing ==
    [][\A proj \in ProjectInputs :
          (LoadStep(proj) /\ Malformed(proj))
          => /\ pages' = pages
             /\ (toastMsg'.level = "error" \/ validationErrors' # <<>>)
      ]_vars

(* C19: when a save request settles with a failure, the pages and their    *)
(* trees, the current page, the selected component and the project record  *)
(* are what they were before, an error is shown and the saving flag is     *)
(* false.                                                                  *)
C19_FailedSaveKeepsState ==
    [][(inflight # <<>> /\ inflight' = Tail(inflight)
          /\ toastMsg'.level = "error")
       => /\ pages' = pages
          /\ currentPageId' = currentPageId
          /\ selectedComponentId' = selectedComponentId
          /\ project' = project
          /\ toastMsg'.text \in FailureMessages
          /\ ~isSaving'
      ]_vars

\* the create request of a new project has just failed
C19_Witness ==
    /\ toastMsg = Toast("error", "Network Error")
    /\ ~isSaving
    /\ inflight = <<>>
    /\ project = NoProject
    /\ pages # <<>>

(* C20: a save whose project data fails validateProjectForm issues no      *)
(* request, leaves the page collection and the saving flag as they were    *)
(* and records the validation messages.                                    *)
C20_InvalidSaveAborts ==
    [][(handleSaveProject
          /\ validateProjectForm(ProjectDataOf(project, pages)) # <<>>)
       => /\ inflight' = inflight
          /\ emitted' = NoDocument
          /\ isSaving' = isSaving
          /\ pages' = pages
          /\ validationErrors' =
                validateProjectForm(ProjectDataOf(project, pages))
          /\ toastMsg' = Toast("error", "Please fix validation errors")
      ]_vars

\* a save of the project named "2go" was just refused for its app_name
C20_Witness ==
    /\ validationErrors =
          <<"app_name must be lowercase with underscores only">>
    /\ toastMsg = Toast("error", "Please fix validation errors")
    /\ inflight = <<>>
    /\ ~isSaving

----------------------------------------------------------------------------
(* C21 as stated: no reachable tree has a parent/child edge that           *)
(* validateComponentNesting(parent.type, child.type) reports as invalid:   *)
(* every insertion the editor accepts is one the nesting check reports     *)
(* valid.                                                                  *)
C21_EdgesPassNestingCheck ==
    \A i \in DOMAIN pages :
        \A e \in KindEdges(pages[i].components) :
            validateComponentNesting(e[1], e[2]) = Returned(<<>>)

----------------------------------------------------------------------------
\* the characters a route may hold after its leading slash
AllowedInRoute ==
    Range(LowerLetters) \cup Range(DigitChars) \cup {"_", "-", "/"}

\* a route that is not empty, starts with a slash, holds only allowed
\* characters after it and is not among the existing routes
WellFormedNewRoute(route, existingRoutes) ==
    /\ Len(route) > 0
    /\ route[1] = "/"
    /\ \A i \in 2..Len(route) : route[i] \in AllowedInRoute
    /\ route \notin Range(existingRoutes)

(* C22: validateRoute(route, existing) reports valid exactly when route is *)
(* non-empty, starts with "/", has only lowercase letters, digits,         *)
(* underscores, hyphens and slashes after it, and is not a member of       *)
(* existing; otherwise it returns exactly one error, for field 'route'.    *)
C22_ValidateRouteExact ==
    call.fn = "validateRoute"
    => /\ ret.value.isValid
          <=> WellFormedNewRoute(call.route, call.existingRoutes)
       /\ ret.value.isValid => ret.value.errors = <<>>
       /\ ~ret.value.isValid
          => /\ Len(ret.value.errors) = 1
             /\ ret.value.errors[1].field = "route"

\* a well-formed route that another page already uses was turned down
C22_Witness ==
    /\ call.fn = "validateRoute"
    /\ call.route = <<"/", "a">>
    /\ call.existingRoutes = << <<"/">>, <<"/", "a">> >>
    /\ ~ret.value.isValid
    /\ ret.value.errors[1].message = "This route already exists"

----------------------------------------------------------------------------
\* a screen of a document that conforms to the schema: an identifier as id,
\* a route starting with a slash, a boolean is_home, one component or more
ScreenConforms(screen) ==
    /\ "id" \in DOMAIN screen
    /\ MatchesIdentifier(Chars(screen.id))
    /\ "route" \in DOMAIN screen
    /\ screen.route # <<>>
    /\ screen.route[1] = "/"
    /\ "is_home" \in DOMAIN screen
    /\ screen.is_home \in BOOLEAN
    /\ "components" \in DOMAIN screen
    /\ screen.components # <<>>

DocumentConforms(jsonData) ==
    /\ MatchesIdentifier(jsonData.app_name)
    /\ jsonData.screens # <<>>
    /\ \A i \in DOMAIN jsonData.screens : ScreenConforms(jsonData.screens[i])

(* C23 as stated: every document the editor downloads on export or sends   *)
(* on save conforms to the schema (app_name an identifier, one screen or   *)
(* more, every screen with an identifier as id, a route starting with "/", *)
(* a boolean is_home and one component or more), whatever the project's    *)
(* name and the page collection.                                           *)
C23_EmittedDocumentsConform ==
    emitted.kind # "none" => DocumentConforms(emitted.json_data)

\* the same of the documents sent on save alone
C23_SentDocumentsConform ==
    emitted.kind \in {"create", "update"}
    => DocumentConforms(emitted.json_data)

----------------------------------------------------------------------------
\* the page being viewed lost node id and its descendants and nothing else,
\* and no other page changed
RemovedFromCurrentPage(id) ==
    LET before == CurrentPage(pages, currentPageId).components
        after == CurrentPage(pages', currentPageId').components
        removed == SubtreeIds(NodeTable(before), id)
    IN  /\ currentPageId' = currentPageId
        /\ DOMAIN pages' = DOMAIN pages
        /\ \A i \in DOMAIN pages :
              pages[i].id # currentPageId => pages'[i] = pages[i]
        /\ RootIds(after) = WithoutIds(RootIds(before), removed)
        /\ NodeTable(after) =
              {[e EXCEPT !.kids = WithoutIds(e.kids, removed)] :
                 e \in {x \in NodeTable(before) : x.id \notin removed}}

(* C24 as stated: a delete issued from the delete button of the row of     *)
(* node X in the component tree removes X and its subtree from the page    *)
(* being viewed, whatever node is selected and also when none is selected, *)
(* and removes no other node.                                              *)
C24_TreeDeleteRemovesClickedNode ==
    [][\A id \in AllIds(pages) :
          TreeNode_onDelete(id) => RemovedFromCurrentPage(id)]_vars

----------------------------------------------------------------------------
(* C25 as stated: after the root of the page being viewed is deleted the   *)
(* editor stays usable: the page's component list is empty, the lookup of  *)
(* the selected component resolves to none without failing, and no         *)
(* sequence of operations reaches a state where computing the selected     *)
(* component reads a field of a missing root.                              *)
C25_RootDeletionKeepsEditorUsable == ~crashed

----------------------------------------------------------------------------
(* C26 as stated: in every reachable state the selected component id is    *)
(* none or the id of a node of the tree of the page being viewed, across   *)
(* component add and delete, page select, page add and page delete.        *)
C26_SelectionInCurrentPage ==
    \/ selectedComponentId = Null
    \/ /\ HasCurrentPage(pages, currentPageId)
       /\ selectedComponentId \in
             ForestIds(CurrentPage(pages, currentPageId).components)

(* C26, its consequence as stated: a delete-component never reports        *)
(* success while removing nothing.                                         *)
C26_DeleteNeverRemovesNothing ==
    [][(handleDeleteComponent
          /\ toastMsg' = Toast("success", "Component deleted"))
       => pages' # pages]_vars

----------------------------------------------------------------------------
(* C27 as stated: in every state reachable from a new project the current  *)
(* page id identifies exactly one page of the collection, whatever the     *)
(* clock readings the page ids were built from: page ids are pairwise      *)
(* distinct.                                                               *)
C27_PageIdsDistinct ==
    /\ \A i, j \in DOMAIN pages : i # j => pages[i].id # pages[j].id
    /\ Cardinality(PageIndices(pages, currentPageId)) = 1

(* C27, its consequence as stated: deleting a page removes exactly one     *)
(* page and never empties the collection.                                  *)
C27_DeleteRemovesOnePage ==
    [][\A id \in PageIds(pages) :
          (handleDeletePage(id) /\ pages' # pages)
          => Len(pages') = Len(pages) - 1 /\ pages' # <<>>]_vars

----------------------------------------------------------------------------
\* a step that sends a save request
SendsSave == Len(inflight') > Len(inflight)

(* C28: at most one save request is in flight at any time; the saving flag *)
(* is true exactly while one is in flight and returns to false once the    *)
(* service has answered; a create is sent only while the project has no    *)
(* identifier, the project held never changes once it has one, and every   *)
(* save sent after that is an update of that project, so no sequence of    *)
(* saves creates two project records.                                      *)
C28_OneSaveAtATime ==
    /\ [](Len(inflight) <= 1 /\ (isSaving <=> inflight # <<>>))
    /\ [][/\ SendsSave
             => /\ Len(inflight) = 0
                /\ inflight'[1].op = "create" <=> project = NoProject
                /\ inflight'[1].op = "update"
                   => inflight'[1].id = project[1].id
          /\ project # NoProject => project' = project]_vars
    /\ (isSaving ~> ~isSaving)

\* the project created by a first save is being saved again, as an update
C28_Witness ==
    /\ isSaving
    /\ project # NoProject
    /\ project[1].id = ServiceProjectId
    /\ Len(inflight) = 1
    /\ inflight[1] = [op |-> "update", id |-> ServiceProjectId,
                      name |-> UntitledProject, description |-> <<>>]

----------------------------------------------------------------------------
(* The Dashboard page: the project list, the project form and the          *)
(* generation button, with the service that stores the projects.  A        *)
(* handler reads the projects value of the render that created it, so a    *)
(* request carries that value until its answer arrives.                    *)

\* the most requests the Dashboard has awaiting an answer
MaxRequests == 2
\* the largest id the service gives to a project
MaxProjectId == 3
\* the most requests the Dashboard sends in a session, the fetch included
MaxSessionRequests == 4

\* a handler of the Dashboard: the builder is another route
NoBuilder ==
    UNCHANGED <<pages, currentPageId, selectedComponentId, crashed, now,
                writes, call, ret, persistVars, errors>>

\* a handler that is none of the quick-generate dialog and hands no file
\* to the browser
NoQuickGenerate == UNCHANGED quickVars

Request(op, id, name, closure) ==
    [op |-> op, id |-> id, name |-> name, projects |-> closure]

RemoveAt(seq, i) == SubSeq(seq, 1, i - 1) \o SubSeq(seq, i + 1, Len(seq))

\* the rows of the service in the order of their ids: the answer to
\* GET /projects/
RECURSIVE RowsById(_)
RowsById(rows) ==
    IF rows = {} THEN <<>>
    ELSE LET first == CHOOSE x \in rows : \A y \in rows : x.id <= y.id
         IN  <<first>> \o RowsById(rows \ {first})

\* a request can be sent
CanSend ==
    /\ Len(requests) < MaxRequests
    /\ server.served + Len(requests) < MaxSessionRequests

\* the service after a request that changed no project
Served == [server EXCEPT !.served = @ + 1]

\* the page behind the dialogs takes clicks while no dialog is open
PageClickable ==
    /\ location = Dashboard
    /\ ~isFormOpen
    /\ ~isLogsOpen
    /\ ~isQuickGenerateOpen

\* the project cards are rendered once the list has been fetched
CardsShown == PageClickable /\ ~dashboardLoading

\* the builder while the Dashboard is the route shown: its state does not
\* exist, the variables hold the useState initial values
BuilderUnmounted ==
    /\ now = 1
    /\ pages = <<>>
    /\ currentPageId = ""
    /\ selectedComponentId = Null
    /\ toastMsg = NoToast
    /\ crashed = FALSE
    /\ writes = {}
    /\ call = [fn |-> "none"]
    /\ ret = [ok |-> TRUE]
    /\ project = NoProject
    /\ isLoading = TRUE
    /\ isSaving = FALSE
    /\ validationErrors = <<>>
    /\ inflight = <<>>
    /\ emitted = NoDocument
    /\ location = Dashboard
    /\ errors = NoErrors

\* the state after construction of the Dashboard: the mount effect has
\* called fetchProjects and the answer of the service is awaited
InitDash ==
    /\ projects = <<>>
    /\ dashboardLoading = TRUE
    /\ isFormOpen = FALSE
    /\ selectedProject = <<>>
    /\ formLoading = FALSE
    /\ generatingId = NoId
    /\ selectedProjectId = NoId
    /\ isLogsOpen = FALSE
    /\ isQuickGenerateOpen = FALSE
    /\ quickLoading = FALSE
    /\ quickError = <<>>
    /\ downloaded = <<>>
    /\ server = [rows |-> StoredRows, nextId |-> 3, served |-> 0]
    /\ requests = <<Request("getProjects", NoId, "", <<>>)>>
    /\ BuilderUnmounted

\* the Dashboard once the service has answered the fetch of the mount
\* effect, nothing else having been done
InitDashFetched ==
    /\ projects = RowsById(StoredRows)
    /\ dashboardLoading = FALSE
    /\ isFormOpen = FALSE
    /\ selectedProject = <<>>
    /\ formLoading = FALSE
    /\ generatingId = NoId
    /\ selectedProjectId = NoId
    /\ isLogsOpen = FALSE
    /\ isQuickGenerateOpen = FALSE
    /\ quickLoading = FALSE
    /\ quickError = <<>>
    /\ downloaded = <<>>
    /\ server = [rows |-> StoredRows, nextId |-> 3, served |-> 1]
    /\ requests = <<>>
    /\ BuilderUnmounted

\* fetchProjects after its await: setProjects(data), then the finally block
fetchProjects_Resolved(i) ==
    /\ requests[i].op = "getProjects"
    /\ projects' = RowsById(server.rows)
    /\ dashboardLoading' = FALSE
    /\ requests' = RemoveAt(requests, i)
    /\ toastMsg' = NoToast
    /\ UNCHANGED <<isFormOpen, selectedProject, formLoading, generatingId,
                   selectedProjectId, isLogsOpen>>
    /\ server' = Served
    /\ NoQuickGenerate
    /\ NoBuilder

fetchProjects_Rejected(i, message) ==
    /\ requests[i].op = "getProjects"
    /\ toastMsg' = Toast("error", message)
    /\ dashboardLoading' = FALSE
    /\ requests' = RemoveAt(requests, i)
    /\ UNCHANGED <<projects, isFormOpen, selectedProject, formLoading,
                   generatingId, selectedProjectId, isLogsOpen>>
    /\ server' = Served
    /\ NoQuickGenerate
    /\ NoBuilder

\* the New Project button of the header
onNewProject ==
    /\ PageClickable
    /\ selectedProject' = <<>>
    /\ isFormOpen' = TRUE
    /\ toastMsg' = NoToast
    /\ UNCHANGED <<projects, dashboardLoading, formLoading, generatingId,
                   selectedProjectId, isLogsOpen, server, requests>>
    /\ NoQuickGenerate
    /\ NoBuilder

\* the Edit button of the card of the project at place k of the list
ProjectCard_onEdit(k) ==
    /\ CardsShown
    /\ k \in DOMAIN projects
    /\ selectedProject' = <<projects[k]>>
    /\ isFormOpen' = TRUE
    /\ toastMsg' = NoToast
    /\ UNCHANGED <<projects, dashboardLoading, formLoading, generatingId,
                   selectedProjectId, isLogsOpen, server, requests>>
    /\ NoQuickGenerate
    /\ NoBuilder

\* the form's onClose: Escape or a click outside close the dialog, also
\* while a submit is awaited
ProjectForm_onClose ==
    /\ location = Dashboard
    /\ isFormOpen
    /\ isFormOpen' = FALSE
    /\ selectedProject' = <<>>
    /\ toastMsg' = NoToast
    /\ UNCHANGED <<projects, dashboardLoading, formLoading, generatingId,
                   selectedProjectId, isLogsOpen, server, requests>>
    /\ NoQuickGenerate
    /\ NoBuilder

\* ProjectForm.handleSubmit up to its await, the JSON text parsing: the
\* submit button is disabled while the form's isLoading; onSubmit is
\* handleUpdateProject when a project is selected, else handleCreateProject
ProjectForm_handleSubmit(name) ==
    /\ location = Dashboard
    /\ isFormOpen
    /\ ~formLoading
    /\ CanSend
    /\ selectedProject = <<>> => server.nextId <= MaxProjectId
    /\ formLoading' = TRUE
    /\ requests' = Append(requests,
          IF selectedProject # <<>>
          THEN Request("update", selectedProject[1].id, name, projects)
          ELSE Request("create", NoId, name, projects))
    /\ toastMsg' = NoToast
    /\ UNCHANGED <<projects, dashboardLoading, isFormOpen, selectedProject,
                   generatingId, selectedProjectId, isLogsOpen, server>>
    /\ NoQuickGenerate
    /\ NoBuilder

\* handleCreateProject after its await, then the form's onClose() and its
\* finally block
handleCreateProject_Resolved(i) ==
    LET newProject == ProjectRow(server.nextId, requests[i].name)
    IN  /\ requests[i].op = "create"
        /\ server' = [rows |-> server.rows \cup {newProject},
                      nextId |-> server.nextId + 1,
                      served |-> server.served + 1]
        /\ projects' = <<newProject>> \o requests[i].projects
        /\ toastMsg' = Toast("success", "Project created successfully")
        /\ isFormOpen' = FALSE
        /\ selectedProject' = <<>>
        /\ formLoading' = FALSE
        /\ requests' = RemoveAt(requests, i)
        /\ UNCHANGED <<dashboardLoading, generatingId, selectedProjectId,
                       isLogsOpen>>
        /\ NoQuickGenerate
        /\ NoBuilder

\* handleCreateProject and handleUpdateProject when the request fails: the
\* toast, the rethrow, and the form's catch and finally blocks
ProjectForm_handleSubmit_Rejected(i, message) ==
    /\ requests[i].op \in {"create", "update"}
    /\ toastMsg' = Toast("error", message)
    /\ formLoading' = FALSE
    /\ requests' = RemoveAt(requests, i)
    /\ UNCHANGED <<projects, dashboardLoading, isFormOpen, selectedProject,
                   generatingId, selectedProjectId, isLogsOpen>>
    /\ server' = Served
    /\ NoQuickGenerate
    /\ NoBuilder

\* handleUpdateProject after its await, then the form's onClose() and its
\* finally block
handleUpdateProject_Resolved(i) ==
    LET updated == ProjectRow(requests[i].id, requests[i].name)
        held == requests[i].projects
    IN  /\ requests[i].op = "update"
        /\ \E x \in server.rows : x.id = requests[i].id
        /\ server' = [Served EXCEPT !.rows =
                         {x \in @ : x.id # updated.id} \cup {updated}]
        /\ projects' = [k \in DOMAIN held |->
                          IF held[k].id = updated.id THEN updated
                          ELSE held[k]]
        /\ toastMsg' = Toast("success", "Project updated successfully")
        /\ isFormOpen' = FALSE
        /\ selectedProject' = <<>>
        /\ formLoading' = FALSE
        /\ requests' = RemoveAt(requests, i)
        /\ UNCHANGED <<dashboardLoading, generatingId, selectedProjectId,
                       isLogsOpen>>
        /\ NoQuickGenerate
        /\ NoBuilder

\* the delete button of a card, the confirm dialog accepted:
\* handleDeleteProject up to its await
handleDeleteProject(id) ==
    /\ CardsShown
    /\ \E k \in DOMAIN projects : projects[k].id = id
    /\ CanSend
    /\ requests' = Append(requests, Request("delete", id, "", projects))
    /\ toastMsg' = NoToast
    /\ UNCHANGED <<projects, dashboardLoading, isFormOpen, selectedProject,
                   formLoading, generatingId, selectedProjectId, isLogsOpen,
                   server>>
    /\ NoQuickGenerate
    /\ NoBuilder

handleDeleteProject_Resolved(i) ==
    /\ requests[i].op = "delete"
    /\ \E x \in server.rows : x.id = requests[i].id
    /\ server' = [Served EXCEPT !.rows = {x \in @ : x.id # requests[i].id}]
    /\ projects' = SelectSeq(requests[i].projects,
                             LAMBDA p : p.id # requests[i].id)
    /\ toastMsg' = Toast("success", "Project deleted successfully")
    /\ requests' = RemoveAt(requests, i)
    /\ UNCHANGED <<dashboardLoading, isFormOpen, selectedProject,
                   formLoading, generatingId, selectedProjectId, isLogsOpen>>
    /\ NoQuickGenerate
    /\ NoBuilder

handleDeleteProject_Rejected(i, message) ==
    /\ requests[i].op = "delete"
    /\ toastMsg' = Toast("error", message)
    /\ requests' = RemoveAt(requests, i)
    /\ UNCHANGED <<projects, dashboardLoading, isFormOpen, selectedProject,
                   formLoading, generatingId, selectedProjectId, isLogsOpen>>
    /\ server' = Served
    /\ NoQuickGenerate
    /\ NoBuilder

\* the Generate button of a card, disabled on the card whose id is
\* generatingId: handleGenerateProject up to its await
handleGenerateProject(id) ==
    /\ CardsShown
    /\ \E k \in DOMAIN projects : projects[k].id = id
    /\ generatingId # id
    /\ CanSend
    /\ generatingId' = id
    /\ requests' = Append(requests, Request("generate", id, "", <<>>))
    /\ toastMsg' = NoToast
    /\ UNCHANGED <<projects, dashboardLoading, isFormOpen, selectedProject,
                   formLoading, selectedProjectId, isLogsOpen, server>>
    /\ NoQuickGenerate
    /\ NoBuilder

\* handleGenerateProject after its await: the logs dialog is opened, and
\* the finally block runs setGeneratingId(null)
handleGenerateProject_Resolved(i) ==
    /\ requests[i].op = "generate"
    /\ \E x \in server.rows : x.id = requests[i].id
    /\ toastMsg' = Toast("success", "Generation started successfully")
    /\ selectedProjectId' = requests[i].id
    /\ isLogsOpen' = TRUE
    /\ generatingId' = NoId
    /\ requests' = RemoveAt(requests, i)
    /\ UNCHANGED <<projects, dashboardLoading, isFormOpen, selectedProject,
                   formLoading>>
    /\ server' = Served
    /\ NoQuickGenerate
    /\ NoBuilder

handleGenerateProject_Rejected(i, message) ==
    /\ requests[i].op = "generate"
    /\ toastMsg' = Toast("error", message)
    /\ generatingId' = NoId
    /\ requests' = RemoveAt(requests, i)
    /\ UNCHANGED <<projects, dashboardLoading, isFormOpen, selectedProject,
                   formLoading, selectedProjectId, isLogsOpen>>
    /\ server' = Served
    /\ NoQuickGenerate
    /\ NoBuilder

\* onClose of the logs dialog
ProjectLogs_onClose ==
    /\ location = Dashboard
    /\ isLogsOpen
    /\ isLogsOpen' = FALSE
    /\ toastMsg' = NoToast
    /\ UNCHANGED <<projects, dashboardLoading, isFormOpen, selectedProject,
                   formLoading, generatingId, selectedProjectId, server,
                   requests>>
    /\ NoQuickGenerate
    /\ NoBuilder

\* the Download button of a card: handleDownloadProject up to its await
handleDownloadProject(id) ==
    /\ CardsShown
    /\ \E k \in DOMAIN projects : projects[k].id = id
    /\ CanSend
    /\ requests' = Append(requests, Request("download", id, "", projects))
    /\ toastMsg' = NoToast
    /\ UNCHANGED <<projects, dashboardLoading, isFormOpen, selectedProject,
                   formLoading, generatingId, selectedProjectId, isLogsOpen,
                   server>>
    /\ NoQuickGenerate
    /\ NoBuilder

\* handleDownloadProject after its await: the file is named after the
\* project found in the projects value the handler closed over
handleDownloadProject_Resolved(i) ==
    LET found == SelectSeq(requests[i].projects,
                           LAMBDA p : p.id = requests[i].id)
        filename == (IF found = <<>> \/ found[1].name = ""
                     THEN "flutter_app" ELSE found[1].name) \o ".zip"
    IN  /\ requests[i].op = "download"
        /\ \E x \in server.rows : x.id = requests[i].id
        /\ downloaded' = <<filename>>
        /\ toastMsg' = Toast("success", "Project downloaded successfully")
        /\ requests' = RemoveAt(requests, i)
        /\ UNCHANGED <<projects, dashboardLoading, isFormOpen,
                       selectedProject, formLoading, generatingId,
                       selectedProjectId, isLogsOpen, isQuickGenerateOpen,
                       quickLoading, quickError>>
        /\ server' = Served
        /\ NoBuilder

handleDownloadProject_Rejected(i, message) ==
    /\ requests[i].op = "download"
    /\ toastMsg' = Toast("error", message)
    /\ requests' = RemoveAt(requests, i)
    /\ UNCHANGED <<projects, dashboardLoading, isFormOpen, selectedProject,
                   formLoading, generatingId, selectedProjectId, isLogsOpen>>
    /\ server' = Served
    /\ NoQuickGenerate
    /\ NoBuilder

\* the Quick Generate button of the header
onQuickGenerate ==
    /\ PageClickable
    /\ isQuickGenerateOpen' = TRUE
    /\ toastMsg' = NoToast
    /\ UNCHANGED <<projects, dashboardLoading, isFormOpen, selectedProject,
                   formLoading, generatingId, selectedProjectId, isLogsOpen,
                   server, requests, quickLoading, quickError, downloaded>>
    /\ NoBuilder

\* onClose of the quick-generate dialog: Escape or a click outside close
\* it, also while a submit is awaited; the dialog keeps its own state
QuickGenerateDialog_onClose ==
    /\ location = Dashboard
    /\ isQuickGenerateOpen
    /\ isQuickGenerateOpen' = FALSE
    /\ toastMsg' = NoToast
    /\ UNCHANGED <<projects, dashboardLoading, isFormOpen, selectedProject,
                   formLoading, generatingId, selectedProjectId, isLogsOpen,
                   server, requests, quickLoading, quickError, downloaded>>
    /\ NoBuilder

\* QuickGenerateDialog.handleSubmit up to its await, the submit button
\* being disabled while the dialog's isLoading: a JSON text that does not
\* parse sets the error and sends nothing, one that parses calls
\* handleQuickGenerate with the app name of the form
QuickGenerateDialog_handleSubmit(appName, parses) ==
    /\ location = Dashboard
    /\ isQuickGenerateOpen
    /\ ~quickLoading
    /\ IF parses
       THEN /\ CanSend
            /\ quickError' = <<>>
            /\ quickLoading' = TRUE
            /\ requests' = Append(requests,
                                  Request("quickGenerate", NoId, appName,
                                          <<>>))
       ELSE /\ quickError' =
                  <<"Invalid JSON format. Please check your JSON data.">>
            /\ UNCHANGED <<quickLoading, requests>>
    /\ toastMsg' = NoToast
    /\ UNCHANGED <<projects, dashboardLoading, isFormOpen, selectedProject,
                   formLoading, generatingId, selectedProjectId, isLogsOpen,
                   server, isQuickGenerateOpen, downloaded>>
    /\ NoBuilder

\* handleQuickGenerate after its await, then the dialog's onClose() and its
\* finally block
handleQuickGenerate_Resolved(i) ==
    /\ requests[i].op = "quickGenerate"
    /\ downloaded' = <<requests[i].name \o ".zip">>
    /\ toastMsg' = Toast("success",
                         "Flutter app generated and downloaded successfully")
    /\ isQuickGenerateOpen' = FALSE
    /\ quickLoading' = FALSE
    /\ requests' = RemoveAt(requests, i)
    /\ UNCHANGED <<projects, dashboardLoading, isFormOpen, selectedProject,
                   formLoading, generatingId, selectedProjectId, isLogsOpen,
                   quickError>>
    /\ server' = Served
    /\ NoBuilder

\* handleQuickGenerate when the request fails: the toast, the rethrow, and
\* the dialog's catch and finally blocks
handleQuickGenerate_Rejected(i, message) ==
    /\ requests[i].op = "quickGenerate"
    /\ toastMsg' = Toast("error", message)
    /\ quickError' = <<message>>
    /\ quickLoading' = FALSE
    /\ requests' = RemoveAt(requests, i)
    /\ UNCHANGED <<projects, dashboardLoading, isFormOpen, selectedProject,
                   formLoading, generatingId, selectedProjectId, isLogsOpen,
                   isQuickGenerateOpen, downloaded>>
    /\ server' = Served
    /\ NoBuilder

\* the Visual Builder button of the header: setLocation('/builder'); the
\* requests awaiting an answer keep awaiting it
onVisualBuilder ==
    /\ PageClickable
    /\ location' = BuilderLocation
    /\ toastMsg' = NoToast
    /\ UNCHANGED <<pages, currentPageId, selectedComponentId, crashed, now,
                   writes, call, ret, project, isLoading, isSaving,
                   validationErrors, inflight, emitted, errors>>
    /\ NoDashboard

\* the Dashboard: what the user does, the answers of the service, and the
\* requests that fail
NextDash ==
    \/ onNewProject
    \/ \E k \in DOMAIN projects : ProjectCard_onEdit(k)
    \/ ProjectForm_onClose
    \/ \E name \in {"gamma"} : ProjectForm_handleSubmit(name)
    \/ \E k \in DOMAIN projects : handleDeleteProject(projects[k].id)
    \/ \E k \in DOMAIN projects : handleGenerateProject(projects[k].id)
    \/ ProjectLogs_onClose
    \/ \E k \in DOMAIN projects : handleDownloadProject(projects[k].id)
    \/ onQuickGenerate
    \/ QuickGenerateDialog_onClose
    \/ \E parses \in BOOLEAN :
          QuickGenerateDialog_handleSubmit("my_app", parses)
    \/ onVisualBuilder
    \/ \E i \in DOMAIN requests : handleDownloadProject_Resolved(i)
    \/ \E i \in DOMAIN requests : handleQuickGenerate_Resolved(i)
    \/ \E i \in DOMAIN requests, message \in FailureMessages :
          handleDownloadProject_Rejected(i, message)
    \/ \E i \in DOMAIN requests, message \in FailureMessages :
          handleQuickGenerate_Rejected(i, message)
    \/ \E i \in DOMAIN requests : fetchProjects_Resolved(i)
    \/ \E i \in DOMAIN requests : handleCreateProject_Resolved(i)
    \/ \E i \in DOMAIN requests : handleUpdateProject_Resolved(i)
    \/ \E i \in DOMAIN requests : handleDeleteProject_Resolved(i)
    \/ \E i \in DOMAIN requests : handleGenerateProject_Resolved(i)
    \/ \E i \in DOMAIN requests, message \in FailureMessages :
          fetchProjects_Rejected(i, message)
    \/ \E i \in DOMAIN requests, message \in FailureMessages :
          ProjectForm_handleSubmit_Rejected(i, message)
    \/ \E i \in DOMAIN requests, message \in FailureMessages :
          handleDeleteProject_Rejected(i, message)
    \/ \E i \in DOMAIN requests, message \in FailureMessages :
          handleGenerateProject_Rejected(i, message)

SpecDash == InitDash /\ [][NextDash]_vars

\* the Dashboard from the fetched list on, when every request the service
\* receives succeeds
NextDashOk ==
    \/ onNewProject
    \/ \E k \in DOMAIN projects : ProjectCard_onEdit(k)
    \/ ProjectForm_onClose
    \/ \E name \in {"gamma"} : ProjectForm_handleSubmit(name)
    \/ \E k \in DOMAIN projects : handleDeleteProject(projects[k].id)
    \/ \E k \in DOMAIN projects : handleGenerateProject(projects[k].id)
    \/ ProjectLogs_onClose
    \/ \E k \in DOMAIN projects : handleDownloadProject(projects[k].id)
    \/ onQuickGenerate
    \/ QuickGenerateDialog_onClose
    \/ \E parses \in BOOLEAN :
          QuickGenerateDialog_handleSubmit("my_app", parses)
    \/ onVisualBuilder
    \/ \E i \in DOMAIN requests : handleDownloadProject_Resolved(i)
    \/ \E i \in DOMAIN requests : handleQuickGenerate_Resolved(i)
    \/ \E i \in DOMAIN requests : handleCreateProject_Resolved(i)
    \/ \E i \in DOMAIN requests : handleUpdateProject_Resolved(i)
    \/ \E i \in DOMAIN requests : handleDeleteProject_Resolved(i)
    \/ \E i \in DOMAIN requests : handleGenerateProject_Resolved(i)

SpecDashOk == InitDashFetched /\ [][NextDashOk]_vars

----------------------------------------------------------------------------
\* no create, update or delete request awaits its answer, and the list has
\* been fetched
NoMutationOutstanding ==
    /\ ~dashboardLoading
    /\ \A i \in DOMAIN requests :
          requests[i].op \notin {"create", "update", "delete"}

(* C29 as stated: on the Dashboard, once every outstanding create, update  *)
(* and delete request has completed successfully, the project list shown   *)
(* equals the projects the service stores, whatever the order in which the *)
(* requests were sent and answered (two deletes sent before either is      *)
(* answered among them).                                                   *)
C29_ListMatchesService ==
    NoMutationOutstanding
    => /\ Range(projects) = server.rows
       /\ Len(projects) = Cardinality(server.rows)

----------------------------------------------------------------------------
(* C30 as stated: while a generation request for a project is in flight,   *)
(* that project is the one marked as generating (generatingId is its id,   *)
(* its Generate button disabled), whatever generation requests of other    *)
(* projects are sent or answered meanwhile.                                *)
C30_InFlightIsMarked ==
    \A i \in DOMAIN requests :
        requests[i].op = "generate" => generatingId = requests[i].id
====
